---- MODULE Spec2Model ----
(***************************************************************************)
(* A model of go-netdef (netdefine.go): Config.Create renders a topology   *)
(* description into host resources (openvswitch bridges, network           *)
(* namespaces, veth endpoints) while filling a RenderedNetwork ledger, and *)
(* RenderedNetwork.Cleanup destroys what the ledger records.               *)
(*                                                                         *)
(* Strings are sequences of one-character strings, so that prefix tests,   *)
(* number parsing and number formatting are computed as the code computes  *)
(* them.  Every call that reaches the host (callBin, net.Interfaces,       *)
(* ioutil.ReadDir, ctrlnet.SetLink) is one step that either succeeds with  *)
(* its effect on the host or fails without any.                            *)
(***************************************************************************)
EXTENDS Integers, Sequences, FiniteSets, TLC

VARIABLES
    cfg,       \* the Config handed to Create (Networks, Peers, Prefixes)
    lset,      \* LinkOpts.lset of every link of cfg: {} (nil) or {descriptor}
    host,      \* the host: bridges, namespaces, interfaces
    host0,     \* the host as it was when Create was called
    r,         \* the RenderedNetwork under construction / being cleaned up
    retNil,    \* TRUE iff Create returned a nil *RenderedNetwork
    nets,      \* Create's local map nets: name -> Network copy (ipnet, nextIp)
    pc,        \* position in Create / Cleanup
    loc,       \* the locals of Create and Cleanup (loop state, fresh names)
    cerr,      \* the error Create returned
    derr,      \* the error the latest Cleanup that returned has returned
    last,      \* the latest host call: what, on what, and whether it succeeded
    ncalls,    \* host calls issued by the operation in progress
    created,   \* resources whose create call succeeded in this Create
    destroyed, \* resources whose destroy call succeeded in some Cleanup
    cleanups   \* Cleanup calls made so far

vars == <<cfg, lset, host, host0, r, retNil, nets, pc, loc, cerr, derr, last,
          ncalls, created, destroyed, cleanups>>

----------------------------------------------------------------------------
(* Bounds of the model.                                                    *)

\* Spec: networks, peers and links of a config, and Cleanup calls.
MaxNets == 2
MaxPeers == 2
MaxLinks == 2
MaxCleanups == 2

\* SpecValidate: networks, peers and links of a config.
MaxNetsV == 2
MaxPeersV == 2
MaxLinksV == 1

\* SpecAddress: networks, peers and links of a config.
MaxNetsA == 1
MaxPeersA == 1
MaxLinksA == 1

\* SpecAssign: networks, peers and links of a config.
MaxNetsP == 1
MaxPeersP == 2
MaxLinksP == 2

\* SpecTwoNets: networks, peers and links of a config.
MaxNetsT == 2
MaxPeersT == 1
MaxLinksT == 2

----------------------------------------------------------------------------
(* Strings.                                                                *)

Digits == <<"0", "1", "2", "3", "4", "5", "6", "7", "8", "9">>

IsDigit(c) == \E i \in 1..10 : Digits[i] = c

DigitVal(c) == (CHOOSE i \in 1..10 : Digits[i] = c) - 1

HasPrefix(s, p) == Len(s) >= Len(p) /\ SubSeq(s, 1, Len(p)) = p

HasSuffix(s, p) ==
    Len(s) >= Len(p) /\ SubSeq(s, Len(s) - Len(p) + 1, Len(s)) = p

\* The digits part of strconv.Atoi and of the numbers of an address: -1 is
\* an error (empty, or a character that is no decimal digit).
RECURSIVE ParseUint(_)
ParseUint(s) ==
    IF s = <<>> THEN -1
    ELSE IF ~IsDigit(s[Len(s)]) THEN -1
    ELSE IF Len(s) = 1 THEN DigitVal(s[1])
    ELSE LET hi == ParseUint(SubSeq(s, 1, Len(s) - 1))
         IN  IF hi = -1 THEN -1 ELSE hi * 10 + DigitVal(s[Len(s)])

\* The %d of fmt.Sprintf for an unsigned number.
RECURSIVE FormatUint(_)
FormatUint(n) ==
    IF n < 10 THEN <<Digits[n + 1]>>
    ELSE Append(FormatUint(n \div 10), Digits[(n % 10) + 1])

----------------------------------------------------------------------------
(* The name allocator.                                                     *)

\* A uint64 is its decimal text without leading zeros, so that values up to
\* 2^64 - 1 are in range.
AllDigits(s) == s # <<>> /\ \A i \in 1..Len(s) : IsDigit(s[i])

RECURSIVE TrimZeros(_)
TrimZeros(s) == IF Len(s) > 1 /\ s[1] = "0" THEN TrimZeros(Tail(s)) ELSE s

\* a < b for decimal texts without leading zeros.
DecLess(a, b) ==
    \/ Len(a) < Len(b)
    \/ /\ Len(a) = Len(b)
       /\ \E i \in 1..Len(a) :
              /\ DigitVal(a[i]) < DigitVal(b[i])
              /\ \A k \in 1..(i - 1) : a[k] = b[k]

\* a + 1 in decimal.
RECURSIVE DecInc(_)
DecInc(a) ==
    IF a = <<>> THEN <<"1">>
    ELSE IF a[Len(a)] = "9" THEN Append(DecInc(SubSeq(a, 1, Len(a) - 1)), "0")
    ELSE Append(SubSeq(a, 1, Len(a) - 1), Digits[DigitVal(a[Len(a)]) + 2])

\* math.MaxUint64, 18446744073709551615.
MaxUint64 ==
    <<"1", "8", "4", "4", "6", "7", "4", "4", "0", "7",
      "3", "7", "0", "9", "5", "5", "1", "6", "1", "5">>

\* strconv.ParseUint(s, 10, 64): {} is an error (empty, a character that is
\* no decimal digit, or a value above 2^64 - 1), else {the value}.
ParseUint64(s) ==
    IF AllDigits(s) /\ ~DecLess(MaxUint64, TrimZeros(s)) THEN {TrimZeros(s)} ELSE {}

\* max++ on a uint64: it wraps to 0.
Uint64Inc(a) == IF a = MaxUint64 THEN <<"0">> ELSE DecInc(a)

\* The largest of a non-empty set of uint64.
Uint64Max(S) == CHOOSE x \in S : \A y \in S : ~DecLess(x, y)

\* freshName with found set only for the names whose suffix is a number.
freshNameFoundAfterParse(prefix, existing) ==
    LET sharing == {name \in existing : HasPrefix(name, prefix)}
        nums == UNION {ParseUint64(SubSeq(name, Len(prefix) + 1, Len(name))) :
                           name \in sharing}
        found == nums # {}
        max0 == IF nums = {} THEN <<"0">> ELSE Uint64Max(nums)
        max == IF found THEN Uint64Inc(max0) ELSE max0
    IN  prefix \o max

\* freshName(prefix, existing): found is set by every existing name that
\* starts with prefix, max is the largest suffix that parses as a uint64 (0
\* if none does), and the name is prefix followed by max + 1 if found, by 0
\* otherwise.
freshName(prefix, existing) ==
    LET sharing == {name \in existing : HasPrefix(name, prefix)}
        found == sharing # {}
        nums == UNION {ParseUint64(SubSeq(name, Len(prefix) + 1, Len(name))) :
                           name \in sharing}
        max0 == IF nums = {} THEN <<"0">> ELSE Uint64Max(nums)
        max == IF found THEN Uint64Inc(max0) ELSE max0
    IN  prefix \o max

----------------------------------------------------------------------------
(* Errors.  kind is "nil" for no error; names are the entities the message *)
(* of the error names.                                                     *)

Err(kind, what, names) == [kind |-> kind, what |-> what, names |-> names]

NoErr == Err("nil", "", {})

CapErr(what) == Err("capability", what, {})

----------------------------------------------------------------------------
(* The link-spec parser.  A parse result is [err, val].                    *)

Res(err, val) == [err |-> err, val |-> val]

\* strconv.Atoi: an optional sign, then decimal digits.
Atoi(s) ==
    LET signed == s # <<>> /\ s[1] \in {"+", "-"}
        body == IF signed THEN Tail(s) ELSE s
        n == ParseUint(body)
    IN  IF n = -1 THEN Res(Err("parse", "atoi", {s}), 0)
        ELSE Res(NoErr, IF signed /\ s[1] = "-" THEN 0 - n ELSE n)

\* The multipliers of the metric prefixes: 1024, 1024^2, 1024^3, 1024^4.
\* The exponent is kept, the value being 1024^exp.
prefixes == [c \in {"k", "m", "g", "t"} |->
                CASE c = "k" -> 1 [] c = "m" -> 2 [] c = "g" -> 3 [] c = "t" -> 4]

Kibi == 1024

\* The values of a uint8.
ByteSize == 256

\* The bits of a uint, as the 't' multiplier needs them.
UintBits == 64

\* A uint is a sequence of base-1024 digits, least significant first and
\* without high zero digits: no product is out of range, and 2^64 is six
\* whole digits and four bits of a seventh.
RECURSIVE KibiDigits(_)
KibiDigits(n) == IF n = 0 THEN <<>> ELSE <<n % Kibi>> \o KibiDigits(n \div Kibi)

RECURSIVE Norm(_)
Norm(x) == IF x # <<>> /\ x[Len(x)] = 0 THEN Norm(SubSeq(x, 1, Len(x) - 1)) ELSE x

UintLen == (UintBits \div 10) + 1

\* The base of the i-th digit of a uint.
DigitBase(i) == IF i = UintLen THEN 2 ^ (UintBits % 10) ELSE Kibi

\* A number reduced modulo 2^UintBits.
Wrap(x) ==
    Norm([i \in 1..(IF Len(x) < UintLen THEN Len(x) ELSE UintLen) |-> x[i] % DigitBase(i)])

\* 2^UintBits - x, for the uint x.
RECURSIVE NegDigits(_, _, _)
NegDigits(x, i, borrow) ==
    IF i > UintLen THEN <<>>
    ELSE LET t == (IF i <= Len(x) THEN x[i] ELSE 0) + borrow
         IN  <<(DigitBase(i) - (t % DigitBase(i))) % DigitBase(i)>>
                 \o NegDigits(x, i + 1, IF t > 0 THEN 1 ELSE 0)

\* The conversion uint(v) of the int v.
ToUint(v) ==
    IF v >= 0 THEN Wrap(KibiDigits(v)) ELSE Norm(NegDigits(KibiDigits(0 - v), 1, 0))

\* x * 1024^e as a uint.
MulKibi(x, e) == Wrap(IF x = <<>> THEN <<>> ELSE [i \in 1..e |-> 0] \o x)

\* The conversion uint8(x) of the uint x.
ToUint8(x) == IF x = <<>> THEN 0 ELSE x[1] % ByteSize

\* ParseHumanLinkRate taking a character that is no metric prefix for the
\* multiplier 1.
ParseHumanLinkRateAnyPrefix(s) ==
    IF s = <<>> THEN Res(NoErr, ToUint(0))
    ELSE IF Len(s) < 4 THEN Res(Err("parse", "invalid rate limit string", {}), ToUint(0))
    ELSE IF ~HasSuffix(s, <<"b", "i", "t">>)
         THEN Res(Err("parse", "link rate string must end in 'bit'", {}), ToUint(0))
    ELSE LET s1 == SubSeq(s, 1, Len(s) - 3)
             c == s1[Len(s1)]
             hasMul == ~IsDigit(c)
             mul == IF hasMul /\ c \in DOMAIN prefixes THEN prefixes[c] ELSE 0
             s2 == IF hasMul THEN SubSeq(s1, 1, Len(s1) - 1) ELSE s1
             v == Atoi(s2)
         IN  IF v.err # NoErr THEN Res(v.err, ToUint(0))
             ELSE Res(NoErr, MulKibi(ToUint(v.val), mul))

\* ParseHumanLinkRate (src/unnamed/part_000).
ParseHumanLinkRate(s) ==
    IF s = <<>> THEN Res(NoErr, ToUint(0))
    ELSE IF Len(s) < 4 THEN Res(Err("parse", "invalid rate limit string", {}), ToUint(0))
    ELSE IF ~HasSuffix(s, <<"b", "i", "t">>)
         THEN Res(Err("parse", "link rate string must end in 'bit'", {}), ToUint(0))
    ELSE LET s1 == SubSeq(s, 1, Len(s) - 3)
             c == s1[Len(s1)]
             hasMul == ~IsDigit(c)
         IN  IF hasMul /\ c \notin DOMAIN prefixes
             THEN Res(Err("parse", "invalid metric prefix", {<<c>>}), ToUint(0))
             ELSE LET mul == IF hasMul THEN prefixes[c] ELSE 0
                      s2 == IF hasMul THEN SubSeq(s1, 1, Len(s1) - 1) ELSE s1
                      v == Atoi(s2)
                  IN  IF v.err # NoErr THEN Res(v.err, ToUint(0))
                      ELSE Res(NoErr, MulKibi(ToUint(v.val), mul))

ParsePercentage(s) ==
    IF s = <<>> THEN Res(NoErr, ToUint(0))
    ELSE IF ~HasSuffix(s, <<"%">>)
         THEN Res(Err("parse", "percentage strings must end in %", {}), ToUint(0))
    ELSE LET v == Atoi(SubSeq(s, 1, Len(s) - 1))
         IN  IF v.err # NoErr THEN Res(v.err, ToUint(0)) ELSE Res(NoErr, ToUint(v.val))

\* time.ParseDuration on the strings the model uses: decimal digits followed
\* by one unit; the value is in microseconds (the code divides nanoseconds by
\* 1000000, which is microseconds divided by 1000).
ParseDuration(s) ==
    LET k == IF s # <<>> /\ \E i \in 1..Len(s) : ~IsDigit(s[i])
             THEN CHOOSE i \in 1..Len(s) :
                      ~IsDigit(s[i]) /\ \A j \in 1..(i - 1) : IsDigit(s[j])
             ELSE Len(s) + 1
        num == ParseUint(SubSeq(s, 1, k - 1))
        unit == SubSeq(s, k, Len(s))
    IN  IF num = -1 THEN Res(Err("parse", "invalid duration", {s}), 0)
        ELSE IF unit = <<"u", "s">> THEN Res(NoErr, num)
        ELSE IF unit = <<"m", "s">> THEN Res(NoErr, num * 1000)
        ELSE IF unit = <<"s">> THEN Res(NoErr, num * 1000000)
        ELSE Res(Err("parse", "unknown unit in duration", {s}), 0)

\* The zero value of ctrlnet.LinkSettings.
ZeroSettings == [Latency |-> 0, Jitter |-> 0, Bandwidth |-> ToUint(0), PacketLoss |-> 0]

\* LinkOpts.Parse: the error it returns and the descriptor it leaves in lset
\* (allocated first, filled field by field up to the first error).
Parse(lo) ==
    LET lat == IF lo.Latency # <<>> THEN ParseDuration(lo.Latency) ELSE Res(NoErr, 0)
        jit == IF lo.Jitter # <<>> THEN ParseDuration(lo.Jitter) ELSE Res(NoErr, 0)
        bw == ParseHumanLinkRate(lo.Bandwidth)
        pl == ParsePercentage(lo.PacketLoss)
        s1 == [ZeroSettings EXCEPT !.Latency = lat.val \div 1000]
        s2 == [s1 EXCEPT !.Jitter = jit.val \div 1000]
        s3 == [s2 EXCEPT !.Bandwidth = bw.val]
        s4 == [s3 EXCEPT !.PacketLoss = ToUint8(pl.val)]
    IN  IF lat.err # NoErr THEN Res(lat.err, ZeroSettings)
        ELSE IF jit.err # NoErr THEN Res(jit.err, s1)
        ELSE IF bw.err # NoErr THEN Res(bw.err, s2)
        ELSE IF pl.err # NoErr THEN Res(pl.err, s3)
        ELSE Res(NoErr, s4)

\* The first test of LinkOpts.Apply: all four strings empty.
Unset(lo) ==
    lo.Bandwidth = <<>> /\ lo.PacketLoss = <<>> /\ lo.Jitter = <<>> /\ lo.Latency = <<>>

----------------------------------------------------------------------------
(* Addresses.  An IP is a sequence of bytes, most significant first.       *)

\* A big.Int is its magnitude as a sequence of base-256 digits, least
\* significant first and without high zero digits, so that no value is out of
\* range.
Reverse(s) == [i \in 1..Len(s) |-> s[Len(s) + 1 - i]]

RECURSIVE StripZeros(_)
StripZeros(b) == IF b # <<>> /\ b[1] = 0 THEN StripZeros(Tail(b)) ELSE b

\* big.Int.SetBytes: b is big-endian.
SetBytes(b) == Reverse(StripZeros(b))

\* big.Int.Add of the big.Int x and big.NewInt(k), k >= 0.
RECURSIVE AddInt(_, _)
AddInt(x, k) ==
    IF k = 0 THEN x
    ELSE IF x = <<>> THEN <<k % ByteSize>> \o AddInt(<<>>, k \div ByteSize)
    ELSE <<(x[1] + k) % ByteSize>> \o AddInt(Tail(x), (x[1] + k) \div ByteSize)

\* big.Int.Bytes: the shortest big-endian form.
Bytes(x) == Reverse(x)

\* strings.Split on one character.
RECURSIVE Split(_, _)
Split(s, c) ==
    IF \A i \in 1..Len(s) : s[i] # c THEN <<s>>
    ELSE LET k == CHOOSE i \in 1..Len(s) : s[i] = c /\ \A j \in 1..(i - 1) : s[j] # c
         IN  <<SubSeq(s, 1, k - 1)>> \o Split(SubSeq(s, k + 1, Len(s)), c)

\* net.ParseIP for dotted-quad text: {} is nil, else {the four bytes}.
ParseIP(s) ==
    LET parts == Split(s, ".")
        vals == [i \in 1..Len(parts) |-> ParseUint(parts[i])]
    IN  IF Len(parts) = 4 /\ \A i \in 1..4 : Len(parts[i]) <= 3 /\ vals[i] \in 0..255
        THEN {vals} ELSE {}

\* The number of leading one bits of a four-byte mask, -1 if its one bits are
\* not contiguous from the top (net.simpleMaskLength).
MaskLength(m) ==
    LET v == [i \in 1..4 |-> m[i]]
        ones(b) == CASE b = 255 -> 8 [] b = 254 -> 7 [] b = 252 -> 6 [] b = 248 -> 5
                     [] b = 240 -> 4 [] b = 224 -> 3 [] b = 192 -> 2 [] b = 128 -> 1
                     [] b = 0 -> 0 [] OTHER -> -1
    IN  IF \E i \in 1..4 : ones(v[i]) = -1 THEN -1
        ELSE IF \E i, j \in 1..4 : i < j /\ v[i] # 255 /\ v[j] # 0 THEN -1
        ELSE ones(v[1]) + ones(v[2]) + ones(v[3]) + ones(v[4])

\* net.CIDRMask(ones, 32).
CIDRMask(n) ==
    [i \in 1..4 |->
        LET bits == IF n >= 8 * i THEN 8 ELSE IF n <= 8 * (i - 1) THEN 0 ELSE n - 8 * (i - 1)
        IN  ByteSize - 2 ^ (8 - bits)]

\* net.ParseCIDR for IPv4 text "a.b.c.d/n": {} is an error, else {ipnet} with
\* the address masked to the network base.
ParseCIDR(s) ==
    LET parts == Split(s, "/")
        ip == IF Len(parts) = 2 THEN ParseIP(parts[1]) ELSE {}
        n == IF Len(parts) = 2 THEN ParseUint(parts[2]) ELSE -1
    IN  IF ip = {} \/ n \notin 0..32 \/ Len(parts[2]) > 2 THEN {}
        ELSE LET a == CHOOSE x \in ip : TRUE
                 m == CIDRMask(n)
             IN  {[IP |-> [i \in 1..4 |-> a[i] - (a[i] % (ByteSize - m[i]))],
                   Mask |-> m]}

FormatIP(ip) ==
    FormatUint(ip[1]) \o <<".">> \o FormatUint(ip[2]) \o <<".">>
        \o FormatUint(ip[3]) \o <<".">> \o FormatUint(ip[4])

HexDigits == <<"0", "1", "2", "3", "4", "5", "6", "7", "8", "9",
               "a", "b", "c", "d", "e", "f">>

\* net.IPNet.String: address, "/", and the mask length, or the mask in hex
\* when its one bits are not contiguous.
IPNetString(ip, mask) ==
    LET l == MaskLength(mask)
        hex(b) == <<HexDigits[(b \div 16) + 1], HexDigits[(b % 16) + 1]>>
    IN  IF l = -1
        THEN FormatIP(ip) \o <<"/">> \o hex(mask[1]) \o hex(mask[2])
                 \o hex(mask[3]) \o hex(mask[4])
        ELSE FormatIP(ip) \o <<"/">> \o FormatUint(l)

\* GetNextIp with the subnet's BindMask tried before the caller's mask.
GetNextIpSubnetMaskFirst(n, mask) ==
    LET nextIp == n.nextIp + 1
        ipn == AddInt(SetBytes(n.ipnet.IP), nextIp)
        b == Bytes(ipn)
        m1 == ParseIP(mask)
        m2 == ParseIP(n.BindMask)
        subnetMask == IF m2 # {} THEN CHOOSE x \in m2 : TRUE
                      ELSE IF m1 # {} THEN CHOOSE x \in m1 : TRUE
                      ELSE n.ipnet.Mask
    IN  [nextIp |-> nextIp,
         panic |-> Len(b) < 4,
         out |-> IF Len(b) < 4 THEN <<>>
                 ELSE IPNetString(SubSeq(b, 1, 4), subnetMask)]

\* GetNextIp with the counter advanced after its use instead of before.
GetNextIpPostIncrement(n, mask) ==
    LET ipn == AddInt(SetBytes(n.ipnet.IP), n.nextIp)
        b == Bytes(ipn)
        m1 == ParseIP(mask)
        m2 == ParseIP(n.BindMask)
        subnetMask == IF m1 # {} THEN CHOOSE x \in m1 : TRUE
                      ELSE IF m2 # {} THEN CHOOSE x \in m2 : TRUE
                      ELSE n.ipnet.Mask
    IN  [nextIp |-> n.nextIp + 1,
         panic |-> Len(b) < 4,
         out |-> IF Len(b) < 4 THEN <<>>
                 ELSE IPNetString(SubSeq(b, 1, 4), subnetMask)]

\* Network.GetNextIp(mask) on the Network copy n: the incremented counter,
\* whether indexing b[0..3] panics, and the text returned.
GetNextIp(n, mask) ==
    LET nextIp == n.nextIp + 1
        ipn == AddInt(SetBytes(n.ipnet.IP), nextIp)
        b == Bytes(ipn)
        m1 == ParseIP(mask)
        m2 == ParseIP(n.BindMask)
        subnetMask == IF m1 # {} THEN CHOOSE x \in m1 : TRUE
                      ELSE IF m2 # {} THEN CHOOSE x \in m2 : TRUE
                      ELSE n.ipnet.Mask
    IN  [nextIp |-> nextIp,
         panic |-> Len(b) < 4,
         out |-> IF Len(b) < 4 THEN <<>>
                 ELSE IPNetString(SubSeq(b, 1, 4), subnetMask)]

----------------------------------------------------------------------------
(* Finite maps (Go maps) as functions.                                     *)

EmptyMap == [x \in {} |-> x]

Put(f, k, v) == [x \in DOMAIN f \cup {k} |-> IF x = k THEN v ELSE f[x]]

Remove(f, k) == [x \in DOMAIN f \ {k} |-> f[x]]

Range(f) == {f[x] : x \in DOMAIN f}

----------------------------------------------------------------------------
(* The host.  An interface lives in the root namespace (loc = Root) or in  *)
(* a named namespace; addr holds the address assigned to it, if any.       *)

Root == <<>>

Iface(name, where) == [name |-> name, loc |-> where, addr |-> {}]

\* net.Interfaces(): the devices of the root namespace, bridges included.
InterfaceNames(h) == h.bridges \cup {i.name : i \in {x \in h.ifaces : x.loc = Root}}

\* vethRegexp captures names made of lower-case letters and digits only.
VethVisible(name) ==
    /\ name # <<>>
    /\ \A i \in 1..Len(name) :
           IsDigit(name[i]) \/ name[i] \in
               {"a", "b", "c", "d", "e", "f", "g", "h", "i", "j", "k", "l", "m",
                "n", "o", "p", "q", "r", "s", "t", "u", "v", "w", "x", "y", "z"}

\* getVethNames(): `ip link show type veth` in the root namespace.
getVethNames(h) ==
    {i.name : i \in {x \in h.ifaces : x.loc = Root /\ VethVisible(x.name)}}

\* The entries of /var/run/netns.
NamespaceNames(h) == h.namespaces

InRoot(h, name) == \E i \in h.ifaces : i.name = name /\ i.loc = Root

InNs(h, name, ns) == \E i \in h.ifaces : i.name = name /\ i.loc = ns

----------------------------------------------------------------------------
(* Configurations.                                                         *)

\* A *LinkOpts: nil, or the four strings.
LinkOpts(lat, jit, bw, pl) ==
    [isNil |-> FALSE, Latency |-> lat, Jitter |-> jit, Bandwidth |-> bw,
     PacketLoss |-> pl]

NilLink == [isNil |-> TRUE, Latency |-> <<>>, Jitter |-> <<>>, Bandwidth |-> <<>>,
            PacketLoss |-> <<>>]

UnsetLink == LinkOpts(<<>>, <<>>, <<>>, <<>>)

ShapedLink == LinkOpts(<<"5", "0", "m", "s">>, <<>>, <<>>, <<>>)

BadLink == LinkOpts(<<>>, <<>>, <<"1", "0", "x", "b", "i", "t">>, <<>>)

Range24 == <<"1", "0", ".", "0", ".", "0", ".", "0", "/", "2", "4">>

BadRange == <<"1", "0", ".", "0", ".", "0", "/", "2", "4">>

\* "10.1.1.7/16": an address range whose text is not its network base.
Range16 == <<"1", "0", ".", "1", ".", "1", ".", "7", "/", "1", "6">>

Mask16 == <<"2", "5", "5", ".", "2", "5", "5", ".", "0", ".", "0">>

Mask8 == <<"2", "5", "5", ".", "0", ".", "0", ".", "0">>

BadMask == <<"f", "f">>

\* "255.0.255.0": an address whose one bits are not contiguous.
OddMask == <<"2", "5", "5", ".", "0", ".", "2", "5", "5", ".", "0">>

\* "10.1.1.0/24": the 256th address after the base is 10.1.2.0.
RangeCarry == <<"1", "0", ".", "1", ".", "1", ".", "0", "/", "2", "4">>

\* "0.1.0.0/16": a base whose first byte is zero.
RangeZero == <<"0", ".", "1", ".", "0", ".", "0", "/", "1", "6">>

\* "255.255.255.255/32": the last 32-bit address.
RangeTop == <<"2", "5", "5", ".", "2", "5", "5", ".", "2", "5", "5", ".",
              "2", "5", "5", "/", "3", "2">>

\* The sequences over S of length at most n.
RECURSIVE SeqsUpTo(_, _)
SeqsUpTo(S, n) ==
    IF n = 0 THEN {<<>>}
    ELSE LET shorter == SeqsUpTo(S, n - 1)
         IN  shorter \cup {Append(q, x) : q \in shorter, x \in S}

\* The subsets of S with at most n elements.
RECURSIVE SubsetsUpTo(_, _)
SubsetsUpTo(S, n) ==
    IF n = 0 THEN {{}}
    ELSE LET smaller == SubsetsUpTo(S, n - 1)
         IN  smaller \cup {T \cup {x} : T \in smaller, x \in S}

\* The Links map of entity `from` given the links chosen for the config.
LinksOf(links, from) ==
    LET mine == {l \in links : l.from = from}
    IN  [t \in {l.to : l \in mine} |-> (CHOOSE l \in mine : l.to = t).opts]

\* The config made of the networks ns, the peers ps, the links L and the
\* prefix overrides pf.
ConfigOf(ns, ps, L, pf) ==
    [Networks |-> [i \in 1..Len(ns) |->
                      [Name |-> ns[i].Name, IpRange |-> ns[i].IpRange,
                       BindMask |-> ns[i].BindMask,
                       Links |-> LinksOf(L, <<"net", i>>)]],
     Peers |-> [j \in 1..Len(ps) |->
                   [Name |-> ps[j].Name, BindMask |-> ps[j].BindMask,
                    Links |-> LinksOf(L, <<"peer", j>>)]],
     Prefixes |-> pf]

\* The links a config of networks ns and peers ps can be given: at most
\* U.maxLinks in all, one per (owner, target), as in a Go map.
LinkSets(U, ns, ps) ==
    LET ends == {<<"net", i>> : i \in 1..Len(ns)} \cup {<<"peer", j>> : j \in 1..Len(ps)}
    IN  {L \in SubsetsUpTo([from : ends, to : U.targets, opts : U.links], U.maxLinks) :
            \A l1, l2 \in L : (l1.from = l2.from /\ l1.to = l2.to) => l1 = l2}

\* The keys of the links of c: <<"net", i, target>> and <<"peer", j, target>>.
LinkKeys(c) ==
    UNION {{<<"net", i, t>> : t \in DOMAIN c.Networks[i].Links} : i \in 1..Len(c.Networks)}
    \cup
    UNION {{<<"peer", j, t>> : t \in DOMAIN c.Peers[j].Links} : j \in 1..Len(c.Peers)}

LinkOf(c, k) ==
    IF k[1] = "net" THEN c.Networks[k[2]].Links[k[3]] ELSE c.Peers[k[2]].Links[k[3]]

----------------------------------------------------------------------------
(* The initial state: Create is about to be called on cfg.                 *)

CleanHost == [bridges |-> {}, namespaces |-> {}, ifaces |-> {}]

\* A host that already holds one resource of each kind under the default
\* prefixes.
BusyHost ==
    [bridges |-> {<<"b", "r", "0">>},
     namespaces |-> {<<"n", "s", "0">>},
     ifaces |-> {Iface(<<"v", "e", "t", "h", "0">>, Root), Iface(<<"t", "a", "p", "0">>, Root)}]

NilRendered ==
    [Bridges |-> {}, Namespaces |-> EmptyMap, Interfaces |-> {},
     subnets |-> EmptyMap, prefixes |-> EmptyMap]

NoLoc ==
    [todo |-> {}, cur |-> <<>>, ltodo |-> {}, tgt |-> <<>>, pi |-> 0,
     name |-> <<>>, ab |-> <<>>, ba |-> <<>>, lnA |-> <<>>, lnB |-> <<>>,
     ns |-> <<>>, seen |-> {}]

NoCall == [op |-> "none", args |-> <<>>, ok |-> TRUE]

\* cfg is any config over the universe U: at most U.maxNets networks,
\* U.maxPeers peers and U.maxLinks links.
InitWith(U, hosts) ==
    /\ \E ns \in SeqsUpTo([Name : U.netNames, IpRange : U.ranges, BindMask : U.netMasks],
                          U.maxNets) :
       \E ps \in SeqsUpTo([Name : U.peerNames, BindMask : U.peerMasks], U.maxPeers) :
       \E L \in LinkSets(U, ns, ps) :
       \E pf \in U.prefixes :
           cfg = ConfigOf(ns, ps, L, pf)
    /\ lset = [k \in LinkKeys(cfg) |-> {}]
    /\ host \in hosts
    /\ host0 = host
    /\ r = NilRendered
    /\ retNil = TRUE
    /\ nets = EmptyMap
    /\ pc = "start"
    /\ loc = NoLoc
    /\ cerr = NoErr
    /\ derr = NoErr
    /\ last = NoCall
    /\ ncalls = 0
    /\ created = {}
    /\ destroyed = {}
    /\ cleanups = 0

----------------------------------------------------------------------------
(* Create, lines 787-839: validation.  No host call is made here.          *)

Declared(c) == {c.Networks[i].Name : i \in 1..Len(c.Networks)}

\* The error of the i-th pass of the Networks loop.
NetworkErr(c, i) ==
    IF \E j \in 1..(i - 1) : c.Networks[j].Name = c.Networks[i].Name
    THEN Err("validation", "duplicate network name", {c.Networks[i].Name})
    ELSE IF ParseCIDR(c.Networks[i].IpRange) = {}
    THEN Err("cidr", "invalid CIDR address", {c.Networks[i].IpRange})
    ELSE NoErr

\* The peers loop with peers[p.Name] = true left out: no duplicate is seen.
PeerDupNeverSeen(c, j) == FALSE

PeerDup(c, j) == \E i \in 1..(j - 1) : c.Peers[i].Name = c.Peers[j].Name

Owner(c, k) == IF k[1] = "net" THEN c.Networks[k[2]].Name ELSE c.Peers[k[2]].Name

\* The error of one pass of a Links loop, on the link with key k.
LinkErr(c, k) ==
    IF k[3] \notin Declared(c)
    THEN Err("validation",
             IF k[1] = "net" THEN "network has link to non-existent network"
             ELSE "peer has link to non-existent network",
             {Owner(c, k), k[3]})
    ELSE IF LinkOf(c, k).isNil THEN NoErr
    ELSE Parse(LinkOf(c, k)).err

\* What the validation loops can end with: the error returned and the links
\* on which Parse has run.  The Networks and Peers slices are walked in
\* order; the Links maps and the nets map are walked in any order, so any bad
\* link of the first bad peer (or any bad subnet link) can be the one met
\* first, after any of the good ones.
ValidateOutcomes(c) ==
    LET keys == LinkKeys(c)
        parses(k) == k[3] \in Declared(c) /\ ~LinkOf(c, k).isNil
        badNets == {i \in 1..Len(c.Networks) : NetworkErr(c, i) # NoErr}
        badOf(j) == {k \in keys : k[1] = "peer" /\ k[2] = j /\ LinkErr(c, k) # NoErr}
        badPeers == {j \in 1..Len(c.Peers) : PeerDup(c, j) \/ badOf(j) # {}}
        badNetLinks == {k \in keys : k[1] = "net" /\ LinkErr(c, k) # NoErr}
        before(j) == {k \in keys : k[1] = "peer" /\ k[2] < j /\ parses(k)}
        goodOf(j) == {k \in keys : k[1] = "peer" /\ k[2] = j /\ parses(k)
                                       /\ LinkErr(c, k) = NoErr}
        goodNetLinks == {k \in keys : k[1] = "net" /\ parses(k) /\ LinkErr(c, k) = NoErr}
        allPeerLinks == {k \in keys : k[1] = "peer" /\ parses(k)}
        met(k) == IF parses(k) THEN {k} ELSE {}
    IN  IF badNets # {}
        THEN {[err |-> NetworkErr(c, CHOOSE i \in badNets : \A i2 \in badNets : i <= i2),
               parsed |-> {}]}
        ELSE IF badPeers # {}
        THEN LET j == CHOOSE x \in badPeers : \A y \in badPeers : x <= y
             IN  IF PeerDup(c, j)
                 THEN {[err |-> Err("validation", "duplicate peer name", {c.Peers[j].Name}),
                        parsed |-> before(j)]}
                 ELSE {[err |-> LinkErr(c, k), parsed |-> before(j) \cup S \cup met(k)] :
                           k \in badOf(j), S \in SUBSET goodOf(j)}
        ELSE IF badNetLinks # {}
        THEN {[err |-> LinkErr(c, k), parsed |-> allPeerLinks \cup S \cup met(k)] :
                  k \in badNetLinks, S \in SUBSET goodNetLinks}
        ELSE {[err |-> NoErr, parsed |-> {k \in keys : parses(k)}]}

\* The prefixes NewRenderedNetwork starts from.
DefaultPrefixes ==
    [typ \in {"Bridge", "Interface", "Patch", "Port", "Namespace"} |->
        CASE typ = "Bridge" -> <<"b", "r">>
          [] typ = "Interface" -> <<"v", "e", "t", "h">>
          [] typ = "Patch" -> <<"p", "a", "t", "c", "h">>
          [] typ = "Port" -> <<"t", "a", "p">>
          [] typ = "Namespace" -> <<"n", "s">>]

\* Config.NewRenderedNetwork: empty ledger, defaults overridden by Prefixes.
NewRenderedNetwork(c) ==
    [Bridges |-> {}, Namespaces |-> EmptyMap, Interfaces |-> {},
     subnets |-> EmptyMap,
     prefixes |-> [typ \in DOMAIN DefaultPrefixes \cup DOMAIN c.Prefixes |->
                      IF typ \in DOMAIN c.Prefixes THEN c.Prefixes[typ]
                      ELSE DefaultPrefixes[typ]]]

\* The map nets that the first loop of Create builds.
NetsOf(c) ==
    [n \in Declared(c) |->
        LET i == CHOOSE x \in 1..Len(c.Networks) : c.Networks[x].Name = n
        IN  [idx |-> i,
             ipnet |-> CHOOSE x \in ParseCIDR(c.Networks[i].IpRange) : TRUE,
             BindMask |-> c.Networks[i].BindMask,
             nextIp |-> 0]]

\* Validation run after the first interface inventory query instead of
\* before any host call.
ValidateAfterQuery ==
    /\ pc = "start"
    /\ \E o \in ValidateOutcomes(cfg) :
        /\ lset' = [k \in LinkKeys(cfg) |->
                       IF k \in o.parsed THEN {Parse(LinkOf(cfg, k)).val} ELSE lset[k]]
        /\ IF o.err # NoErr
           THEN /\ cerr' = o.err
                /\ pc' = "done"
                /\ UNCHANGED <<r, retNil, nets, loc>>
           ELSE /\ r' = NewRenderedNetwork(cfg)
                /\ retNil' = FALSE
                /\ nets' = NetsOf(cfg)
                /\ loc' = [NoLoc EXCEPT !.todo = Declared(cfg)]
                /\ pc' = "bridges"
                /\ cerr' = NoErr
    /\ last' = [op |-> "Interfaces", args |-> <<>>, ok |-> TRUE]
    /\ ncalls' = ncalls + 1
    /\ UNCHANGED <<cfg, host, host0, derr, created, destroyed, cleanups>>

\* Lines 787-841: the three validation loops, then NewRenderedNetwork.  On an
\* error Create returns (nil, err).
Validate ==
    /\ pc = "start"
    /\ \E o \in ValidateOutcomes(cfg) :
        /\ lset' = [k \in LinkKeys(cfg) |->
                       IF k \in o.parsed THEN {Parse(LinkOf(cfg, k)).val} ELSE lset[k]]
        /\ IF o.err # NoErr
           THEN /\ cerr' = o.err
                /\ pc' = "done"
                /\ UNCHANGED <<r, retNil, nets, loc>>
           ELSE /\ r' = NewRenderedNetwork(cfg)
                /\ retNil' = FALSE
                /\ nets' = NetsOf(cfg)
                /\ loc' = [NoLoc EXCEPT !.todo = Declared(cfg)]
                /\ pc' = "bridges"
                /\ cerr' = NoErr
    /\ UNCHANGED <<cfg, host, host0, derr, last, ncalls, created, destroyed, cleanups>>

----------------------------------------------------------------------------
(* Host calls made by Create.                                              *)

\* A host call of Create whose ledger update is made before the result of
\* the call is looked at.
CreateCallRecordsFirst(p, op, args, pre, hostOK, rOK, locOK, made, q) ==
    /\ pc = p
    /\ \E ok \in BOOLEAN :
        /\ ok => pre
        /\ last' = [op |-> op, args |-> args, ok |-> ok]
        /\ ncalls' = ncalls + 1
        /\ r' = rOK
        /\ IF ok
           THEN /\ host' = hostOK
                /\ loc' = locOK
                /\ created' = created \cup made
                /\ pc' = q
                /\ cerr' = cerr
           ELSE /\ pc' = "done"
                /\ cerr' = CapErr(op)
                /\ UNCHANGED <<host, loc, created>>
    /\ UNCHANGED <<cfg, lset, host0, retNil, nets, derr, destroyed, cleanups>>

\* One host call of Create at position p: it succeeds only if the host can
\* carry it out (pre), and may fail anyway.  On success the host, the ledger
\* and the locals take their new values and Create goes on at q; on failure
\* nothing changes and Create returns (r, err).
CreateCall(p, op, args, pre, hostOK, rOK, locOK, made, q) ==
    /\ pc = p
    /\ \E ok \in BOOLEAN :
        /\ ok => pre
        /\ last' = [op |-> op, args |-> args, ok |-> ok]
        /\ ncalls' = ncalls + 1
        /\ IF ok
           THEN /\ host' = hostOK
                /\ r' = rOK
                /\ loc' = locOK
                /\ created' = created \cup made
                /\ pc' = q
                /\ cerr' = cerr
           ELSE /\ pc' = "done"
                /\ cerr' = CapErr(op)
                /\ UNCHANGED <<host, r, loc, created>>
    /\ UNCHANGED <<cfg, lset, host0, retNil, nets, derr, destroyed, cleanups>>

\* A step of Create that makes no host call (a loop header).
CreateSkip(p, locNew, q) ==
    /\ pc = p
    /\ loc' = locNew
    /\ pc' = q
    /\ UNCHANGED <<cfg, lset, host, host0, r, retNil, nets, cerr, derr, last, ncalls,
                   created, destroyed, cleanups>>

\* LinkOpts.Apply(iface) at position p, for the link with key k, going on at
\* q: nothing when the four strings are empty, the not-parsed error when lset
\* is nil, else ctrlnet.SetLink.
Apply(p, k, iface, q) ==
    /\ pc = p
    /\ IF LinkOf(cfg, k).isNil \/ Unset(LinkOf(cfg, k))
       THEN CreateSkip(p, loc, q)
       ELSE IF lset[k] = {}
       THEN /\ pc' = "done"
            /\ cerr' = Err("internal", "linkopts has not been parsed", {iface})
            /\ UNCHANGED <<cfg, lset, host, host0, r, retNil, nets, loc, derr, last,
                           ncalls, created, destroyed, cleanups>>
       ELSE CreateCall(p, "SetLink", <<iface>>, InRoot(host, iface), host, r, loc, {}, q)

----------------------------------------------------------------------------
(* Create, lines 843-851: one bridge per subnet, the map nets walked in any *)
(* order.                                                                  *)

NextBridge ==
    IF loc.todo = {}
    THEN CreateSkip("bridges", [loc EXCEPT !.todo = DOMAIN nets], "patch")
    ELSE \E n \in loc.todo :
             CreateSkip("bridges", [loc EXCEPT !.todo = @ \ {n}, !.cur = n], "br_name")

\* r.freshNetworkName(n): freshInterfaceName(prefixes["Bridge"]) scans
\* net.Interfaces(), and the name is noted in r.subnets.
FreshNetworkName ==
    LET bridgename == freshName(r.prefixes["Bridge"], InterfaceNames(host))
    IN  CreateCall("br_name", "Interfaces", <<>>, TRUE, host,
                   [r EXCEPT !.subnets = Put(@, loc.cur, bridgename)],
                   [loc EXCEPT !.name = bridgename], {}, "br_create")

\* r.CreateBridge(bridgename): ovs-vsctl add-br, recorded on success.
CreateBridge ==
    CreateCall("br_create", "add-br", <<loc.name>>,
               loc.name \notin InterfaceNames(host),
               [host EXCEPT !.bridges = @ \cup {loc.name}],
               [r EXCEPT !.Bridges = @ \cup {loc.name}],
               loc, {<<"bridge", loc.name>>}, "bridges")

----------------------------------------------------------------------------
(* Create, lines 853-861, and PatchBridges, lines 514-554.                 *)

NextPatchNet ==
    IF loc.todo = {}
    THEN CreateSkip("patch", [loc EXCEPT !.pi = 1], "peers")
    ELSE \E n \in loc.todo :
             CreateSkip("patch",
                        [loc EXCEPT !.todo = @ \ {n}, !.cur = n,
                                    !.ltodo = DOMAIN cfg.Networks[nets[n].idx].Links],
                        "patch_links")

NextPatchLink ==
    IF loc.ltodo = {}
    THEN CreateSkip("patch_links", loc, "patch")
    ELSE \E t \in loc.ltodo :
             CreateSkip("patch_links", [loc EXCEPT !.ltodo = @ \ {t}, !.tgt = t],
                        "pb_ab_name")

PatchFreshAB ==
    CreateCall("pb_ab_name", "VethNames", <<>>, TRUE, host, r,
               [loc EXCEPT !.ab = freshName(r.prefixes["Port"], getVethNames(host))],
               {}, "pb_ab_create")

\* r.CreateVeth(a): ip link add a type veth, recorded on success.
CreateVeth(p, a, q) ==
    CreateCall(p, "link-add", <<a>>, a \notin InterfaceNames(host),
               [host EXCEPT !.ifaces = @ \cup {Iface(a, Root)}],
               [r EXCEPT !.Interfaces = @ \cup {a}],
               loc, {<<"iface", a>>}, q)

PatchCreateAB == CreateVeth("pb_ab_create", loc.ab, "pb_ba_name")

PatchFreshBA ==
    CreateCall("pb_ba_name", "VethNames", <<>>, TRUE, host, r,
               [loc EXCEPT !.ba = freshName(r.prefixes["Port"], getVethNames(host))],
               {}, "pb_ba_create")

PatchCreateBA == CreateVeth("pb_ba_create", loc.ba, "pb_add_a")

\* r.BridgeAddPort(bridge, ifname): ovs-vsctl add-port.
BridgeAddPort(p, bridge, ifname, q) ==
    CreateCall(p, "add-port", <<bridge, ifname>>,
               bridge \in host.bridges /\ InRoot(host, ifname), host, r, loc, {}, q)

\* r.PortSetParameter / r.PortSetOption: ovs-vsctl set interface.
PortSet(p, port, what, q) ==
    CreateCall(p, what, <<port>>, InRoot(host, port), host, r, loc, {}, q)

PatchAddPortA == BridgeAddPort("pb_add_a", r.subnets[loc.cur], loc.ab, "pb_type_a")

PatchTypeA == PortSet("pb_type_a", loc.ab, "set-type", "pb_peer_a")

PatchPeerA == PortSet("pb_peer_a", loc.ab, "set-peer", "pb_add_b")

PatchAddPortB == BridgeAddPort("pb_add_b", r.subnets[loc.tgt], loc.ba, "pb_type_b")

PatchTypeB == PortSet("pb_type_b", loc.ba, "set-type", "pb_peer_b")

PatchPeerB == PortSet("pb_peer_b", loc.ba, "set-peer", "pb_apply")

PatchApply == Apply("pb_apply", <<"net", nets[loc.cur].idx, loc.tgt>>, loc.ab, "patch_links")

----------------------------------------------------------------------------
(* Create, lines 863-920: the peers, in the order of the slice.            *)

NextPeer ==
    IF loc.pi > Len(cfg.Peers)
    THEN CreateSkip("peers", loc, "done")
    ELSE CreateSkip("peers", loc, "ns_name")

\* freshNamespaceName(prefixes["Namespace"]): a scan of /var/run/netns (a
\* missing directory counts as no names; another error is returned).
FreshNamespaceName ==
    CreateCall("ns_name", "ReadDir", <<>>, TRUE, host, r,
               [loc EXCEPT !.name = freshName(r.prefixes["Namespace"],
                                              NamespaceNames(host))],
               {}, "ns_create")

\* r.CreateNamespace(p.Name): ip netns add, the mapping peer name -> fresh
\* name recorded on success; then ns := r.Namespaces[p.Name].
CreateNamespace ==
    CreateCall("ns_create", "netns-add", <<loc.name>>,
               loc.name \notin host.namespaces,
               [host EXCEPT !.namespaces = @ \cup {loc.name}],
               [r EXCEPT !.Namespaces = Put(@, cfg.Peers[loc.pi].Name, loc.name)],
               [loc EXCEPT !.ns = loc.name, !.ltodo = DOMAIN cfg.Peers[loc.pi].Links],
               {<<"namespace", loc.name>>}, "plinks")

NextPeerLink ==
    IF loc.ltodo = {}
    THEN CreateSkip("plinks", [loc EXCEPT !.pi = @ + 1], "peers")
    ELSE \E t \in loc.ltodo :
             CreateSkip("plinks", [loc EXCEPT !.ltodo = @ \ {t}, !.tgt = t], "l_a_name")

LinkFreshA ==
    CreateCall("l_a_name", "VethNames", <<>>, TRUE, host, r,
               [loc EXCEPT !.lnA = freshName(r.prefixes["Interface"], getVethNames(host))],
               {}, "l_b_name")

LinkFreshB ==
    CreateCall("l_b_name", "VethNames", <<>>, TRUE, host, r,
               [loc EXCEPT !.lnB = freshName(r.prefixes["Port"], getVethNames(host))],
               {}, "l_pair")

\* r.CreateVethPair(a, b): ip link add a type veth peer name b, both ends
\* recorded on success.
CreateVethPair(p, a, b, q) ==
    CreateCall(p, "link-add-pair", <<a, b>>,
               a # b /\ a \notin InterfaceNames(host) /\ b \notin InterfaceNames(host),
               [host EXCEPT !.ifaces = @ \cup {Iface(a, Root), Iface(b, Root)}],
               [r EXCEPT !.Interfaces = @ \cup {a, b}],
               loc, {<<"iface", a>>, <<"iface", b>>}, q)

LinkCreatePair == CreateVethPair("l_pair", loc.lnA, loc.lnB, "l_addport")

\* The switch side attached and the loopback brought up next, the peer side
\* not moved into the namespace.
LinkAddPortThenUp == BridgeAddPort("l_addport", r.subnets[loc.tgt], loc.lnB, "l_lo_up")

LinkAddPort == BridgeAddPort("l_addport", r.subnets[loc.tgt], loc.lnB, "l_assign")

\* r.AssignVethToNamespace(veth, ns): ip link set veth netns ns; on success
\* the veth leaves the root namespace and leaves r.Interfaces.
AssignVethToNamespace(p, veth, ns, q) ==
    CreateCall(p, "link-set-netns", <<veth, ns>>,
               InRoot(host, veth) /\ ns \in host.namespaces /\ ~InNs(host, veth, ns),
               [host EXCEPT !.ifaces = (@ \ {i \in @ : i.name = veth /\ i.loc = Root})
                                           \cup {Iface(veth, ns)}],
               [r EXCEPT !.Interfaces = @ \ {veth}],
               loc, {}, q)

LinkAssign == AssignVethToNamespace("l_assign", loc.lnA, loc.ns, "l_lo_up")

\* r.NetNsExec(ns, "ip", "link", "set", "dev", dev, "up").
NetNsUp(p, ns, dev, pre, q) ==
    CreateCall(p, "netns-exec-up", <<ns, dev>>, ns \in host.namespaces /\ pre,
               host, r, loc, {}, q)

LinkLoUp == NetNsUp("l_lo_up", loc.ns, <<"l", "o">>, TRUE, "l_a_up")

LinkAUp == NetNsUp("l_a_up", loc.ns, loc.lnA, InNs(host, loc.lnA, loc.ns), "l_b_up")

\* r.SetDev(dev, "up").
LinkBUp ==
    CreateCall("l_b_up", "set-dev-up", <<loc.lnB>>, InRoot(host, loc.lnB),
               host, r, loc, {}, "l_addr")

\* The address assignment with the error of NetNsExec dropped: Create goes
\* on to Apply whether or not the call succeeded.
LinkAddrIgnoresError ==
    /\ pc = "l_addr"
    /\ LET g == GetNextIp(nets[loc.tgt], cfg.Peers[loc.pi].BindMask)
       IN  /\ nets' = [nets EXCEPT ![loc.tgt].nextIp = g.nextIp]
           /\ IF g.panic
              THEN /\ pc' = "panic"
                   /\ UNCHANGED <<host, cerr, last, ncalls>>
              ELSE \E ok \in BOOLEAN :
                     /\ ok => (loc.ns \in host.namespaces /\ InNs(host, loc.lnA, loc.ns))
                     /\ last' = [op |-> "netns-exec-addr", args |-> <<loc.ns, loc.lnA, g.out>>,
                                 ok |-> ok]
                     /\ ncalls' = ncalls + 1
                     /\ host' = IF ok
                                THEN [host EXCEPT !.ifaces =
                                        {IF i.name = loc.lnA /\ i.loc = loc.ns
                                         THEN [i EXCEPT !.addr = @ \cup {g.out}] ELSE i : i \in @}]
                                ELSE host
                     /\ pc' = "l_apply"
                     /\ cerr' = cerr
    /\ UNCHANGED <<cfg, lset, host0, r, retNil, loc, derr, created, destroyed, cleanups>>

\* next := nets[net].GetNextIp(p.BindMask), which advances the counter, then
\* r.NetNsExec(ns, "ip", "addr", "add", next, "dev", lnA).
LinkAddr ==
    /\ pc = "l_addr"
    /\ LET g == GetNextIp(nets[loc.tgt], cfg.Peers[loc.pi].BindMask)
       IN  /\ nets' = [nets EXCEPT ![loc.tgt].nextIp = g.nextIp]
           /\ IF g.panic
              THEN /\ pc' = "panic"
                   /\ UNCHANGED <<host, cerr, last, ncalls>>
              ELSE \E ok \in BOOLEAN :
                     /\ ok => (loc.ns \in host.namespaces /\ InNs(host, loc.lnA, loc.ns))
                     /\ last' = [op |-> "netns-exec-addr", args |-> <<loc.ns, loc.lnA, g.out>>,
                                 ok |-> ok]
                     /\ ncalls' = ncalls + 1
                     /\ IF ok
                        THEN /\ host' = [host EXCEPT !.ifaces =
                                  {IF i.name = loc.lnA /\ i.loc = loc.ns
                                   THEN [i EXCEPT !.addr = @ \cup {g.out}] ELSE i : i \in @}]
                             /\ pc' = "l_apply"
                             /\ cerr' = cerr
                        ELSE /\ pc' = "done"
                             /\ cerr' = CapErr("netns-exec-addr")
                             /\ host' = host
    /\ UNCHANGED <<cfg, lset, host0, r, retNil, loc, derr, created, destroyed, cleanups>>

LinkApply == Apply("l_apply", <<"peer", loc.pi, loc.tgt>>, loc.lnB, "plinks")

----------------------------------------------------------------------------
(* RenderedNetwork.Cleanup, lines 926-946.  The caller may call it on any   *)
(* non-nil RenderedNetwork that Create returned, and again after it        *)
(* returned.                                                               *)

StartCleanup ==
    /\ pc \in {"done", "cl_done"}
    /\ ~retNil
    /\ cleanups < MaxCleanups
    /\ cleanups' = cleanups + 1
    /\ pc' = "cl_ifaces"
    /\ loc' = NoLoc
    /\ last' = NoCall
    /\ ncalls' = 0
    /\ UNCHANGED <<cfg, lset, host, host0, r, retNil, nets, cerr, derr, created, destroyed>>

\* One destroy call of Cleanup at position p: on success the host and the
\* ledger take their new values and the loop goes on; on failure nothing
\* changes and Cleanup returns the error.
CleanupCall(p, op, args, pre, hostOK, rOK, locOK, gone) ==
    /\ pc = p
    /\ \E ok \in BOOLEAN :
        /\ ok => pre
        /\ last' = [op |-> op, args |-> args, ok |-> ok]
        /\ ncalls' = ncalls + 1
        /\ IF ok
           THEN /\ host' = hostOK
                /\ r' = rOK
                /\ loc' = locOK
                /\ destroyed' = destroyed \cup gone
                /\ pc' = p
                /\ derr' = derr
           ELSE /\ pc' = "cl_done"
                /\ derr' = CapErr(op)
                /\ UNCHANGED <<host, r, loc, destroyed>>
    /\ UNCHANGED <<cfg, lset, host0, retNil, nets, cerr, created, cleanups>>

\* The end of one of Cleanup's loops; after the last one Cleanup returns nil.
CleanupSkip(p, q) ==
    /\ pc = p
    /\ pc' = q
    /\ derr' = IF q = "cl_done" THEN NoErr ELSE derr
    /\ UNCHANGED <<cfg, lset, host, host0, r, retNil, nets, loc, cerr, last,
                   ncalls, created, destroyed, cleanups>>

\* DeleteInterface that empties r.Interfaces instead of deleting one entry.
DeleteInterfaceClearsAll(p, name) ==
    CleanupCall(p, "link-del", <<name>>, InRoot(host, name),
                [host EXCEPT !.ifaces = {i \in @ : ~(i.name = name /\ i.loc = Root)}],
                [r EXCEPT !.Interfaces = {}],
                loc, {<<"iface", name>>})

\* r.DeleteInterface(name): ip link del, the entry removed on success.
DeleteInterface(p, name) ==
    CleanupCall(p, "link-del", <<name>>, InRoot(host, name),
                [host EXCEPT !.ifaces = {i \in @ : ~(i.name = name /\ i.loc = Root)}],
                [r EXCEPT !.Interfaces = @ \ {name}],
                loc, {<<"iface", name>>})

\* r.DeleteNamespace(name): ip netns del, which takes the interfaces inside
\* the namespace with it; on success delete(r.Namespaces, name).
DeleteNamespace(p, key, name) ==
    CleanupCall(p, "netns-del", <<name>>, name \in host.namespaces,
                [host EXCEPT !.namespaces = @ \ {name},
                             !.ifaces = {i \in @ : i.loc # name}],
                [r EXCEPT !.Namespaces = Remove(@, name)],
                [loc EXCEPT !.seen = @ \cup {key}],
                {<<"namespace", name>>})

\* r.DeleteBridge(name): ovs-vsctl del-br, the entry removed on success.
DeleteBridge(p, name) ==
    CleanupCall(p, "del-br", <<name>>, name \in host.bridges,
                [host EXCEPT !.bridges = @ \ {name}],
                [r EXCEPT !.Bridges = @ \ {name}],
                loc, {<<"bridge", name>>})

\* for iface := range r.Interfaces
CleanupInterface == \E iface \in r.Interfaces : DeleteInterface("cl_ifaces", iface)

CleanupInterfacesDone == r.Interfaces = {} /\ CleanupSkip("cl_ifaces", "cl_ns")

\* for _, ns := range r.Namespaces: the entries not yet produced and still in
\* the map, in any order.
CleanupNamespace ==
    \E key \in DOMAIN r.Namespaces \ loc.seen :
        DeleteNamespace("cl_ns", key, r.Namespaces[key])

CleanupNamespacesDone ==
    DOMAIN r.Namespaces \ loc.seen = {} /\ CleanupSkip("cl_ns", "cl_br")

\* The bridges deleted in the namespaces loop as well as in their own.
CleanupBridgeInNamespaceLoop ==
    \E p \in {"cl_ns", "cl_br"} : \E br \in r.Bridges : DeleteBridge(p, br)

\* for br := range r.Bridges
CleanupBridge == \E br \in r.Bridges : DeleteBridge("cl_br", br)

CleanupBridgesDone == r.Bridges = {} /\ CleanupSkip("cl_br", "cl_done")

----------------------------------------------------------------------------
(* The specifications.                                                     *)

Next ==
    \/ Validate
    \/ NextBridge \/ FreshNetworkName \/ CreateBridge
    \/ NextPatchNet \/ NextPatchLink
    \/ PatchFreshAB \/ PatchCreateAB \/ PatchFreshBA \/ PatchCreateBA
    \/ PatchAddPortA \/ PatchTypeA \/ PatchPeerA
    \/ PatchAddPortB \/ PatchTypeB \/ PatchPeerB \/ PatchApply
    \/ NextPeer \/ FreshNamespaceName \/ CreateNamespace \/ NextPeerLink
    \/ LinkFreshA \/ LinkFreshB \/ LinkCreatePair \/ LinkAddPort \/ LinkAssign
    \/ LinkLoUp \/ LinkAUp \/ LinkBUp \/ LinkAddr \/ LinkApply
    \/ StartCleanup
    \/ CleanupInterface \/ CleanupInterfacesDone
    \/ CleanupNamespace \/ CleanupNamespacesDone
    \/ CleanupBridge \/ CleanupBridgesDone

\* Topologies of one subnet "a" and peers "p" and "ns1", with or without
\* link shaping, on a clean host or on one that holds resources already.
TopologyUniverse ==
    [netNames |-> {<<"a">>}, targets |-> {<<"a">>}, ranges |-> {Range24},
     netMasks |-> {<<>>},
     peerNames |-> {<<"p">>, <<"n", "s", "1">>}, peerMasks |-> {<<>>},
     links |-> {NilLink, ShapedLink}, prefixes |-> {EmptyMap},
     maxNets |-> MaxNets, maxPeers |-> MaxPeers, maxLinks |-> MaxLinks]

Init == InitWith(TopologyUniverse, {CleanHost, BusyHost})

Spec == Init /\ [][Next]_vars

\* Valid and invalid configs: repeated names, links to the undeclared subnet
\* "b", an address range and a bandwidth string that do not parse.
ValidateUniverse ==
    [netNames |-> {<<"a">>}, targets |-> {<<"a">>, <<"b">>},
     ranges |-> {Range24, BadRange}, netMasks |-> {<<>>},
     peerNames |-> {<<"p">>}, peerMasks |-> {<<>>},
     links |-> {NilLink, UnsetLink, ShapedLink, BadLink}, prefixes |-> {EmptyMap},
     maxNets |-> MaxNetsV, maxPeers |-> MaxPeersV, maxLinks |-> MaxLinksV]

InitValidate == InitWith(ValidateUniverse, {CleanHost})

SpecValidate == InitValidate /\ [][Next]_vars

\* One subnet and one peer under every combination of address range and of
\* subnet and peer BindMask.
AddressUniverse ==
    [netNames |-> {<<"a">>}, targets |-> {<<"a">>},
     ranges |-> {Range24, Range16}, netMasks |-> {<<>>, Mask16},
     peerNames |-> {<<"p">>}, peerMasks |-> {<<>>, Mask8, BadMask},
     links |-> {NilLink, UnsetLink, ShapedLink}, prefixes |-> {EmptyMap},
     maxNets |-> MaxNetsA, maxPeers |-> MaxPeersA, maxLinks |-> MaxLinksA]

InitAddress == InitWith(AddressUniverse, {CleanHost})

SpecAddress == InitAddress /\ [][Next]_vars

\* Several peers on one subnet, whose range starts low or at the last 32-bit
\* address.
AssignUniverse ==
    [netNames |-> {<<"a">>}, targets |-> {<<"a">>},
     ranges |-> {Range24, RangeTop}, netMasks |-> {<<>>},
     peerNames |-> {<<"p">>, <<"q">>}, peerMasks |-> {<<>>},
     links |-> {NilLink}, prefixes |-> {EmptyMap},
     maxNets |-> MaxNetsP, maxPeers |-> MaxPeersP, maxLinks |-> MaxLinksP]

InitAssign == InitWith(AssignUniverse, {CleanHost})

SpecAssign == InitAssign /\ [][Next]_vars

\* One peer linked to the subnets "a" and "b", which may be linked to one
\* another, under the default prefixes or with the one prefix "x" given to
\* the Interface and Port kinds.
TwoNetUniverse ==
    [netNames |-> {<<"a">>, <<"b">>}, targets |-> {<<"a">>, <<"b">>},
     ranges |-> {Range24}, netMasks |-> {<<>>},
     peerNames |-> {<<"p">>}, peerMasks |-> {<<>>},
     links |-> {NilLink},
     prefixes |-> {EmptyMap, [typ \in {"Interface", "Port"} |-> <<"x">>]},
     maxNets |-> MaxNetsT, maxPeers |-> MaxPeersT, maxLinks |-> MaxLinksT]

InitTwoNets == InitWith(TwoNetUniverse, {CleanHost})

SpecTwoNets == InitTwoNets /\ [][Next]_vars

----------------------------------------------------------------------------
(* Network.GetNextIp on its own: a caller allocates addresses on one       *)
(* subnet, with any override mask at each call.                            *)

\* GetNextIp calls made on the subnet.
MaxAllocs == 256

AllocNet == <<"a">>

AllocRanges == {Range24, RangeCarry, Range16, RangeZero, RangeTop}

AllocNetMasks == {<<>>, Mask16, BadMask}

AllocMasks == {<<>>, Mask8, OddMask, BadMask}

InitAlloc ==
    /\ \E rng \in AllocRanges, bm \in AllocNetMasks :
           cfg = ConfigOf(<<[Name |-> AllocNet, IpRange |-> rng, BindMask |-> bm]>>,
                          <<>>, {}, EmptyMap)
    /\ lset = [k \in LinkKeys(cfg) |-> {}]
    /\ host = CleanHost
    /\ host0 = host
    /\ r = NilRendered
    /\ retNil = TRUE
    /\ nets = NetsOf(cfg)
    /\ pc = "alloc"
    /\ loc = NoLoc
    /\ cerr = NoErr
    /\ derr = NoErr
    /\ last = NoCall
    /\ ncalls = 0
    /\ created = {}
    /\ destroyed = {}
    /\ cleanups = 0

\* One call nets[AllocNet].GetNextIp(mask): last records the mask, the text
\* returned and whether the call returned at all, ncalls counts the calls.
Allocate ==
    /\ pc = "alloc"
    /\ nets[AllocNet].nextIp < MaxAllocs
    /\ \E mask \in AllocMasks :
          LET g == GetNextIp(nets[AllocNet], mask)
          IN  /\ nets' = [nets EXCEPT ![AllocNet].nextIp = g.nextIp]
              /\ last' = [op |-> "GetNextIp", args |-> <<mask, g.out>>, ok |-> ~g.panic]
              /\ pc' = IF g.panic THEN "panic" ELSE "alloc"
    /\ ncalls' = ncalls + 1
    /\ UNCHANGED <<cfg, lset, host, host0, r, retNil, loc, cerr, derr,
                   created, destroyed, cleanups>>

NextAlloc == Allocate

SpecAlloc == InitAlloc /\ [][NextAlloc]_vars

----------------------------------------------------------------------------
(* freshName on its own: a bridge name is allocated under any prefix on a  *)
(* host that holds any few of the names below.                             *)

\* Names the host holds.
MaxTaken == 3

Br == <<"b", "r">>

\* "br0", "br1", "br3", "br007"; "brx" and "br", whose suffix is no number;
\* "br18446744073709551615" and "br18446744073709551616", the largest uint64
\* and the number after it; "veth0" and "b", which do not start with "br".
TakenNames ==
    {Br \o <<"0">>, Br \o <<"1">>, Br \o <<"3">>, Br \o <<"0", "0", "7">>,
     Br \o <<"x">>, Br,
     Br \o MaxUint64, Br \o DecInc(MaxUint64),
     <<"v", "e", "t", "h", "0">>, <<"b">>}

FreshPrefixes == {Br, <<"v", "e", "t", "h">>}

InitFresh ==
    /\ \E prefix \in FreshPrefixes :
           cfg = ConfigOf(<<>>, <<>>, {}, [typ \in {"Bridge"} |-> prefix])
    /\ lset = [k \in LinkKeys(cfg) |-> {}]
    /\ \E existing \in SubsetsUpTo(TakenNames, MaxTaken) :
           host = [CleanHost EXCEPT !.bridges = existing]
    /\ host0 = host
    /\ r = NewRenderedNetwork(cfg)
    /\ retNil = FALSE
    /\ nets = EmptyMap
    /\ pc = "fresh"
    /\ loc = NoLoc
    /\ cerr = NoErr
    /\ derr = NoErr
    /\ last = NoCall
    /\ ncalls = 0
    /\ created = {}
    /\ destroyed = {}
    /\ cleanups = 0

\* freshName(r.prefixes["Bridge"], names) on the names of the host's devices.
FreshBridgeName ==
    /\ pc = "fresh"
    /\ loc' = [loc EXCEPT !.name = freshName(r.prefixes["Bridge"], InterfaceNames(host))]
    /\ pc' = "named"
    /\ UNCHANGED <<cfg, lset, host, host0, r, retNil, nets, cerr, derr, last, ncalls,
                   created, destroyed, cleanups>>

NextFresh == FreshBridgeName

SpecFresh == InitFresh /\ [][NextFresh]_vars

----------------------------------------------------------------------------
(* The parsers of link rates and percentages on their own: a string is     *)
(* drawn, then handed to ParseHumanLinkRate or to ParsePercentage.         *)

\* Digits of a short magnitude.
MaxDigits == 2

\* All strings over the characters cs of length 1..n.
RECURSIVE StringsUpTo(_, _)
StringsUpTo(cs, n) ==
    IF n = 0 THEN {}
    ELSE LET shorter == StringsUpTo(cs, n - 1)
         IN  {<<c>> : c \in cs} \cup shorter \cup {Append(t, c) : t \in shorter, c \in cs}

\* The magnitudes: short digit strings, and the ones around 2^24, where a
\* 't' product reaches 2^64.
Magnitudes ==
    StringsUpTo({"0", "1", "5"}, MaxDigits)
        \cup {<<"1", "0", "2", "4">>,
              <<"1", "6", "7", "7", "7", "2", "1", "5">>,
              <<"1", "6", "7", "7", "7", "2", "1", "6">>,
              <<"1", "6", "7", "7", "7", "2", "1", "7">>}

\* What follows the magnitude.
Tails ==
    {<<>>, <<"b", "i", "t">>, <<"k", "b", "i", "t">>, <<"m", "b", "i", "t">>,
     <<"g", "b", "i", "t">>, <<"t", "b", "i", "t">>, <<"x", "b", "i", "t">>,
     <<"K", "b", "i", "t">>, <<"k", "k", "b", "i", "t">>, <<"b", "p", "s">>,
     <<"b">>, <<"%">>, <<"x", "%">>, <<"%", "%">>}

\* A string is an optional sign, an optional magnitude and a tail.
ParseInputs ==
    {sg \o m \o t : sg \in {<<>>, <<"+">>, <<"-">>}, m \in Magnitudes \cup {<<>>},
                     t \in Tails}

InitParse ==
    /\ cfg = ConfigOf(<<>>, <<>>, {}, [typ \in {} |-> <<>>])
    /\ lset = [k \in LinkKeys(cfg) |-> {}]
    /\ host = CleanHost
    /\ host0 = host
    /\ r = NewRenderedNetwork(cfg)
    /\ retNil = FALSE
    /\ nets = EmptyMap
    /\ pc = "parse"
    /\ loc = NoLoc
    /\ cerr = NoErr
    /\ derr = NoErr
    /\ \E s \in ParseInputs : last = [op |-> "input", args |-> <<s>>, ok |-> TRUE]
    /\ ncalls = 0
    /\ created = {}
    /\ destroyed = {}
    /\ cleanups = 0

\* The call parse(s) returns: its value in last, its error in cerr.
Parsed(op, s, res) ==
    /\ pc = "parse"
    /\ last' = [op |-> op, args |-> <<s, res.val>>, ok |-> res.err = NoErr]
    /\ cerr' = res.err
    /\ pc' = "parsed"
    /\ UNCHANGED <<cfg, lset, host, host0, r, retNil, nets, loc, derr, ncalls,
                   created, destroyed, cleanups>>

RateParsed ==
    Parsed("ParseHumanLinkRate", last.args[1], ParseHumanLinkRate(last.args[1]))

PercentageParsed ==
    Parsed("ParsePercentage", last.args[1], ParsePercentage(last.args[1]))

NextParse == RateParsed \/ PercentageParsed

SpecParse == InitParse /\ [][NextParse]_vars

----------------------------------------------------------------------------
(* One LinkOpts on its own: its user sets the four strings and calls Parse *)
(* and Apply in any order.  The LinkOpts is the link of peer "p" to the    *)
(* subnet "a"; created holds what every Parse call so far has returned.    *)

\* Calls of Parse, and calls of Apply that reach the host.
MaxUses == 3

LinkKey == <<"peer", 1, <<"a">>>>

\* The config whose one link is lo.
LinkConfig(lo) ==
    ConfigOf(<<[Name |-> <<"a">>, IpRange |-> Range24, BindMask |-> <<>>]>>,
             <<[Name |-> <<"p">>, BindMask |-> <<>>]>>,
             {[from |-> <<"peer", 1>>, to |-> <<"a">>, opts |-> lo]}, EmptyMap)

\* Latency "" or "50ms" with bandwidth "", "10mbit" or "10xbit".
LinkChoices ==
    {LinkOpts(lat, <<>>, bw, <<>>) :
        lat \in {<<>>, <<"5", "0", "m", "s">>},
        bw \in {<<>>, <<"1", "0", "m", "b", "i", "t">>, <<"1", "0", "x", "b", "i", "t">>}}

\* A LinkOpts out of choices that was never parsed, on a host with "tap0".
InitLinkWith(choices) ==
    /\ \E lo \in choices : cfg = LinkConfig(lo)
    /\ lset = [k \in LinkKeys(cfg) |-> {}]
    /\ host = BusyHost
    /\ host0 = host
    /\ r = NewRenderedNetwork(cfg)
    /\ retNil = FALSE
    /\ nets = EmptyMap
    /\ pc = "link"
    /\ loc = NoLoc
    /\ cerr = NoErr
    /\ derr = NoErr
    /\ last = NoCall
    /\ ncalls = 0
    /\ created = {}
    /\ destroyed = {}
    /\ cleanups = 0

\* The user assigns other strings to the fields; lset is no field of theirs.
SetFields ==
    /\ pc = "link"
    /\ \E lo \in LinkChoices \ {LinkOf(cfg, LinkKey)} : cfg' = LinkConfig(lo)
    /\ UNCHANGED <<lset, host, host0, r, retNil, nets, pc, loc, cerr, derr, last,
                   ncalls, created, destroyed, cleanups>>

\* lo.Parse() without lo.lset = new(ctrlnet.LinkSettings): a field whose
\* string is empty keeps the value an earlier Parse left.
ParseLinkKeepsFields ==
    /\ pc = "link"
    /\ Cardinality(created) < MaxUses
    /\ LET lo == LinkOf(cfg, LinkKey)
           res == Parse(lo)
           old == IF lset[LinkKey] = {} THEN ZeroSettings ELSE CHOOSE d \in lset[LinkKey] : TRUE
           val == [Latency |-> IF lo.Latency = <<>> THEN old.Latency ELSE res.val.Latency,
                   Jitter |-> IF lo.Jitter = <<>> THEN old.Jitter ELSE res.val.Jitter,
                   Bandwidth |-> IF lo.Bandwidth = <<>> THEN old.Bandwidth
                                 ELSE res.val.Bandwidth,
                   PacketLoss |-> IF lo.PacketLoss = <<>> THEN old.PacketLoss
                                  ELSE res.val.PacketLoss]
       IN  /\ lset' = [lset EXCEPT ![LinkKey] = {val}]
           /\ cerr' = res.err
           /\ last' = [op |-> "Parse", args |-> <<lo>>, ok |-> res.err = NoErr]
           /\ created' = created \cup {<<Cardinality(created) + 1, lo, res.err, val>>}
    /\ UNCHANGED <<cfg, host, host0, r, retNil, nets, pc, loc, derr, ncalls,
                   destroyed, cleanups>>

\* lo.Parse(): lo.lset = new(ctrlnet.LinkSettings) drops what lset held, then
\* the fields are filled in up to the first error.
ParseLink ==
    /\ pc = "link"
    /\ Cardinality(created) < MaxUses
    /\ LET lo == LinkOf(cfg, LinkKey)
           res == Parse(lo)
       IN  /\ lset' = [lset EXCEPT ![LinkKey] = {res.val}]
           /\ cerr' = res.err
           /\ last' = [op |-> "Parse", args |-> <<lo>>, ok |-> res.err = NoErr]
           /\ created' = created \cup {<<Cardinality(created) + 1, lo, res.err, res.val>>}
    /\ UNCHANGED <<cfg, host, host0, r, retNil, nets, pc, loc, derr, ncalls,
                   destroyed, cleanups>>

\* lo.Apply("tap0").
ApplyLink == ncalls < MaxUses /\ Apply("link", LinkKey, <<"t", "a", "p", "0">>, "link")

NextLink == SetFields \/ ParseLink \/ ApplyLink

SpecLink == InitLinkWith(LinkChoices) /\ [][NextLink]_vars

\* Parse on a LinkOpts whose only string is the packet loss.
LossChoices == {LinkOpts(<<>>, <<>>, <<>>, s) : s \in ParseInputs}

NextLoss == ParseLink

SpecLoss == InitLinkWith(LossChoices) /\ [][NextLoss]_vars

----------------------------------------------------------------------------
(* CreateNamespace by one pass or by two passes at once on one host.  Here *)
(* pc, loc and r hold one value per pass.                                  *)

\* Passes at work on the host.
MaxPasses == 2

Ns == DefaultPrefixes["Namespace"]

\* "ns0", "ns1", "ns7", "nsx", "ns18446744073709551615" and "br0".
RaceNames ==
    {Ns \o <<"0">>, Ns \o <<"1">>, Ns \o <<"7">>, Ns \o <<"x">>, Ns \o MaxUint64,
     Br \o <<"0">>}

InitRace ==
    /\ cfg = ConfigOf(<<>>, <<>>, {}, EmptyMap)
    /\ lset = [k \in LinkKeys(cfg) |-> {}]
    /\ \E existing \in SubsetsUpTo(RaceNames, MaxTaken) :
           host = [CleanHost EXCEPT !.namespaces = existing]
    /\ host0 = host
    /\ \E n \in 1..MaxPasses :
           /\ r = [i \in 1..n |-> NewRenderedNetwork(cfg)]
           /\ pc = [i \in 1..n |-> "ns_name"]
           /\ loc = [i \in 1..n |-> NoLoc]
    /\ retNil = FALSE
    /\ nets = EmptyMap
    /\ cerr = NoErr
    /\ derr = NoErr
    /\ last = NoCall
    /\ ncalls = 0
    /\ created = {}
    /\ destroyed = {}
    /\ cleanups = 0

\* Pass i: freshNamespaceName(r.prefixes["Namespace"]), a scan of the
\* namespaces the host holds at this moment.
RaceFreshNamespaceName(i) ==
    /\ pc[i] = "ns_name"
    /\ loc' = [loc EXCEPT ![i].name = freshName(r[i].prefixes["Namespace"],
                                                NamespaceNames(host))]
    /\ pc' = [pc EXCEPT ![i] = "ns_create"]
    /\ last' = [op |-> "ReadDir", args |-> <<i>>, ok |-> TRUE]
    /\ ncalls' = ncalls + 1
    /\ UNCHANGED <<cfg, lset, host, host0, r, retNil, nets, cerr, derr, created,
                   destroyed, cleanups>>

\* Pass i: ip netns add freshname, which fails if the host holds the name
\* and may fail anyway; the mapping is recorded on success.
RaceCreateNamespace(i) ==
    /\ pc[i] = "ns_create"
    /\ \E ok \in BOOLEAN :
        /\ ok => loc[i].name \notin host.namespaces
        /\ last' = [op |-> "netns-add", args |-> <<i, loc[i].name>>, ok |-> ok]
        /\ host' = IF ok THEN [host EXCEPT !.namespaces = @ \cup {loc[i].name}] ELSE host
        /\ r' = IF ok THEN [r EXCEPT ![i].Namespaces = Put(@, <<"p">>, loc[i].name)] ELSE r
        /\ created' = IF ok THEN created \cup {<<"namespace", loc[i].name>>} ELSE created
    /\ pc' = [pc EXCEPT ![i] = "done"]
    /\ ncalls' = ncalls + 1
    /\ UNCHANGED <<cfg, lset, host0, retNil, nets, loc, cerr, derr, destroyed, cleanups>>

NextRace == \E i \in DOMAIN pc : RaceFreshNamespaceName(i) \/ RaceCreateNamespace(i)

SpecRace == InitRace /\ [][NextRace]_vars

----------------------------------------------------------------------------
(* What the claims speak of.                                               *)

\* The resource <<kind, name>> exists on the host h.
OnHost(h, c) ==
    CASE c[1] = "bridge" -> c[2] \in h.bridges
      [] c[1] = "namespace" -> c[2] \in h.namespaces
      [] c[1] = "iface" -> \E i \in h.ifaces : i.name = c[2]

\* The entries of a ledger, each with the resource it records.
Entries(x) ==
    {<<"bridge", b, b>> : b \in x.Bridges}
        \cup {<<"namespace", k, x.Namespaces[k]>> : k \in DOMAIN x.Namespaces}
        \cup {<<"iface", i, i>> : i \in x.Interfaces}

LedgerEmpty(x) == x.Bridges = {} /\ DOMAIN x.Namespaces = {} /\ x.Interfaces = {}

CreateOps == {"add-br", "netns-add", "link-add", "link-add-pair"}

DestroyOps == {"link-del", "netns-del", "del-br"}

\* A host call was issued in the step.
CallMade == ncalls' = ncalls + 1

\* Create has returned and no Cleanup has been started.
CreateReturned == pc = "done"

\* The first Cleanup has returned.
FirstCleanupReturned == pc = "cl_done" /\ cleanups = 1

----------------------------------------------------------------------------
(* C1: if Create fails at a host call and the RenderedNetwork it returned  *)
(* is passed to Cleanup and every destroy call succeeds, no bridge,        *)
(* namespace or interface created by that Create remains on the host.      *)
C1_PartialBuildUndone ==
    (FirstCleanupReturned /\ cerr.kind = "capability" /\ derr = NoErr)
        => \A c \in created : ~OnHost(host, c)

----------------------------------------------------------------------------
(* C2: every entry of Bridges, Namespaces and Interfaces is a resource     *)
(* whose create call has reported success; a create call that fails adds   *)
(* no entry.                                                               *)
C2_LedgerHoldsOnlyCreated ==
    /\ \A b \in r.Bridges : <<"bridge", b>> \in created
    /\ \A k \in DOMAIN r.Namespaces : <<"namespace", r.Namespaces[k]>> \in created
    /\ \A i \in r.Interfaces : <<"iface", i>> \in created

\* A create call has just failed while the ledger holds earlier entries.
C2_Witness ==
    /\ CreateReturned
    /\ last.op \in CreateOps /\ ~last.ok
    /\ r.Bridges # {} /\ r.Interfaces # {}

----------------------------------------------------------------------------
----------------------------------------------------------------------------
(* C4, C5, C6: a successful Create, and the Cleanup after it.              *)

\* cfg has exactly one subnet and one peer, linked to that subnet with no
\* shaping (a nil *LinkOpts or one with no string set).
OneSubnetOnePeer ==
    /\ Len(cfg.Networks) = 1 /\ Len(cfg.Peers) = 1
    /\ DOMAIN cfg.Peers[1].Links = {cfg.Networks[1].Name}
    /\ LET l == cfg.Peers[1].Links[cfg.Networks[1].Name] IN l.isNil \/ Unset(l)

\* The addresses assigned inside the namespace created for the peer named p.
AssignedTo(p) ==
    UNION {i.addr : i \in {x \in host.ifaces : x.loc = r.Namespaces[p]}}

\* The base address of a subnet, plus one.
BasePlusOne(n) ==
    LET base == (CHOOSE x \in ParseCIDR(n.IpRange) : TRUE).IP
    IN  IF base[4] < ByteSize - 1 THEN [base EXCEPT ![4] = @ + 1]
        ELSE IF base[3] < ByteSize - 1 THEN <<base[1], base[2], base[3] + 1, 0>>
        ELSE <<base[1], base[2] + 1, 0, 0>>

DeclaredMask(n) == (CHOOSE x \in ParseCIDR(n.IpRange) : TRUE).Mask

\* The mask by precedence: the peer's BindMask if it parses, else the
\* subnet's BindMask if it parses, else the mask declared in IpRange.
MaskFor(p, n) ==
    IF ParseIP(p.BindMask) # {} THEN CHOOSE m \in ParseIP(p.BindMask) : TRUE
    ELSE IF ParseIP(n.BindMask) # {} THEN CHOOSE m \in ParseIP(n.BindMask) : TRUE
    ELSE DeclaredMask(n)

C5_CleanupEmptiesLedger ==
    (FirstCleanupReturned /\ cerr = NoErr /\ derr = NoErr) => LedgerEmpty(r)

(* C6: after a successful Create and a Cleanup in which every destroy call *)
(* succeeds, the host holds exactly what it held before Create.            *)
C6_HostRestored ==
    (FirstCleanupReturned /\ cerr = NoErr /\ derr = NoErr) => host = host0

----------------------------------------------------------------------------
(* C7: when a host call fails during Create, Create issues no further host *)
(* call and returns the error together with the ledger as it stood.        *)
C7_StopsAtFirstFailure ==
    [][/\ (cleanups' = 0 /\ CallMade /\ ~last'.ok) =>
              /\ pc' = "done"
              /\ cerr' = CapErr(last'.op)
              /\ ~retNil'
              /\ r' = r
       /\ (cleanups' = 0 /\ cerr # NoErr) => ~CallMade]_vars

\* Create has returned the error of a failed call, with entries in the ledger.
C7_Witness ==
    /\ CreateReturned /\ cerr.kind = "capability" /\ ~last.ok
    /\ r.Bridges # {} /\ DOMAIN r.Namespaces # {}

----------------------------------------------------------------------------
(* C8: if Create fails with a validation error or because a link's shaping *)
(* strings do not parse, no host call has been issued and nothing exists   *)
(* on the host because of this pass.                                       *)
C8_NoCallBeforeValidation ==
    (CreateReturned /\ cerr.kind \in {"validation", "parse"}) =>
        /\ ncalls = 0
        /\ last = NoCall
        /\ host = host0
        /\ created = {}

\* Create has failed on a shaping string that does not parse.
C8_Witness == CreateReturned /\ cerr.kind = "parse"

----------------------------------------------------------------------------
(* C9: validation.                                                         *)

DuplicateNets(c) ==
    {c.Networks[i].Name : i \in {x \in 1..Len(c.Networks) :
                                     \E y \in 1..(x - 1) : c.Networks[y].Name = c.Networks[x].Name}}

DuplicatePeers(c) ==
    {c.Peers[i].Name : i \in {x \in 1..Len(c.Peers) :
                                  \E y \in 1..(x - 1) : c.Peers[y].Name = c.Peers[x].Name}}

DanglingTargets(c) == {k[3] : k \in {x \in LinkKeys(c) : x[3] \notin Declared(c)}}

\* The entities that break a rule of the validator.
Offenders(c) == DuplicateNets(c) \cup DuplicatePeers(c) \cup DanglingTargets(c)

\* Something in c does not parse: an address range, or the shaping strings
\* of a link.
Unparsable(c) ==
    \/ \E i \in 1..Len(c.Networks) : ParseCIDR(c.Networks[i].IpRange) = {}
    \/ \E k \in LinkKeys(c) : ~LinkOf(c, k).isNil /\ Parse(LinkOf(c, k)).err # NoErr

(* C9 as stated: Create fails with an error naming the offending entity    *)
(* whenever a link names an undeclared subnet or two subnets or two peers  *)
(* share a name, and never fails with a validation error otherwise.        *)
C9_ValidationErrorNamesOffender ==
    CreateReturned =>
        /\ Offenders(cfg) # {} =>
               cerr.kind = "validation" /\ cerr.names \cap Offenders(cfg) # {}
        /\ Offenders(cfg) = {} => cerr.kind # "validation"

(* C9 as amended: whenever a link names an undeclared subnet or two        *)
(* subnets or two peers share a name, Create fails; the error is a         *)
(* validation error naming an offending entity unless an address range or  *)
(* a link's shaping strings that do not parse are met first, in which case *)
(* it is that parse error; with nothing unparsable in the config it is     *)
(* always the validation error.  Create never fails with a validation      *)
(* error when all names are unique and every link target is declared.      *)
C9_FailsOnEveryViolation ==
    CreateReturned =>
        /\ Offenders(cfg) # {} =>
               /\ cerr # NoErr /\ retNil
               /\ cerr.kind \in {"validation", "cidr", "parse"}
               /\ cerr.kind = "validation" => cerr.names \cap Offenders(cfg) # {}
               /\ ~Unparsable(cfg) => cerr.kind = "validation"
        /\ Offenders(cfg) = {} => cerr.kind # "validation"

\* Create has returned a parse error for a config that also breaks a rule of
\* the validator.
C9_Witness ==
    /\ CreateReturned /\ Offenders(cfg) # {}
    /\ cerr.kind \in {"cidr", "parse"}

----------------------------------------------------------------------------
(* C10: during Cleanup every destroy call on an interface precedes every   *)
(* destroy call on a namespace, which precedes every destroy call on a     *)
(* bridge.  Stated on consecutive calls of one Cleanup: the kind of a call *)
(* never comes before the kind of the call made just before it.            *)

DestroyRank(op) == CASE op = "link-del" -> 1 [] op = "netns-del" -> 2 [] op = "del-br" -> 3

C10_CleanupOrder ==
    [][(CallMade /\ last'.op \in DestroyOps /\ last.op \in DestroyOps) =>
           DestroyRank(last.op) <= DestroyRank(last'.op)]_vars

\* A Cleanup has destroyed an interface, then a namespace, then a bridge.
C10_Witness ==
    /\ pc = "cl_br" /\ cleanups = 1 /\ last.op = "del-br" /\ last.ok
    /\ \A kind \in {"iface", "namespace", "bridge"} : \E c \in destroyed : c[1] = kind

----------------------------------------------------------------------------
(* C11, C12, C13: the ledger during and after Cleanup.                     *)

\* The resources a ledger records, as <<kind, name>>.
Recorded(x) ==
    {<<"bridge", b>> : b \in x.Bridges}
        \cup {<<"namespace", x.Namespaces[k]>> : k \in DOMAIN x.Namespaces}
        \cup {<<"iface", i>> : i \in x.Interfaces}

\* The resource a destroy call is made on.
Target(call) ==
    <<CASE call.op = "link-del" -> "iface"
        [] call.op = "netns-del" -> "namespace"
        [] call.op = "del-br" -> "bridge",
      call.args[1]>>

DestroyCallMade == CallMade /\ last'.op \in DestroyOps

(* C11: each successful destroy call of Cleanup removes the entry of the   *)
(* destroyed resource, and nothing else, from the ledger; a failed one     *)
(* leaves the ledger as it is.  So the ledger is at every point what was   *)
(* recorded less what has been destroyed.                                  *)
C11_LedgerIsRecordedLessDestroyed ==
    [][DestroyCallMade =>
           Recorded(r') = IF last'.ok THEN Recorded(r) \ {Target(last')}
                          ELSE Recorded(r)]_vars

(* C12: when a destroy call fails, Cleanup makes no further destroy call   *)
(* and returns that error, and the ledger it leaves holds the entry of the *)
(* resource whose destruction failed and every entry it has not attempted: *)
(* every bridge and namespace, and every root-namespace veth, that Create  *)
(* recorded and that no destroy call has succeeded on.                     *)
C12_FailureKeepsTheRest ==
    (FirstCleanupReturned /\ derr # NoErr) =>
        /\ ~last.ok /\ derr = CapErr(last.op)
        /\ Target(last) \in Recorded(r)
        /\ \A c \in created \ destroyed :
               (c[1] \in {"bridge", "namespace"} \/ InRoot(host, c[2])) => c \in Recorded(r)

\* Cleanup is running again on the ledger that a failed Cleanup left.
Resuming == cleanups >= 2 /\ pc \in {"cl_ifaces", "cl_ns", "cl_br"} /\ derr # NoErr

(* C13, its safety half: a Cleanup called again on the ledger left by a    *)
(* Cleanup that failed part-way makes no destroy call on a resource that   *)
(* an earlier destroy call has destroyed.                                  *)
C13_NoDestroyOfDestroyed ==
    [][(Resuming /\ DestroyCallMade) => Target(last') \notin destroyed]_vars

----------------------------------------------------------------------------
(* C14, C15: GetNextIp.                                                    *)

\* The four bytes of the address whose 32-bit value is that of b plus k, for
\* 0 <= k < 2^23; <<>> if the sum is not a 32-bit value.
AddrPlus(b, k) ==
    LET s4 == b[4] + k
        s3 == b[3] + (s4 \div ByteSize)
        s2 == b[2] + (s3 \div ByteSize)
        s1 == b[1] + (s2 \div ByteSize)
    IN  IF s1 >= ByteSize THEN <<>>
        ELSE <<s1, s2 % ByteSize, s3 % ByteSize, s4 % ByteSize>>

AllocBase == (CHOOSE x \in ParseCIDR(cfg.Networks[1].IpRange) : TRUE).IP

\* GetNextIp has been called, the latest call being the k-th.
Allocated(k) == last.op = "GetNextIp" /\ nets[AllocNet].nextIp = k

(* C14: the k-th call of GetNextIp on a subnet of base B returns the       *)
(* address of 32-bit value B + k, carries propagated, in CIDR notation     *)
(* with the selected mask.                                                 *)
C14_KthAddressIsBasePlusK ==
    \A k \in 1..(MaxAllocs + 1) :
        (Allocated(k) /\ AddrPlus(AllocBase, k) # <<>>) =>
            /\ last.ok
            /\ last.args[2] = IPNetString(AddrPlus(AllocBase, k),
                                          MaskFor([BindMask |-> last.args[1]], cfg.Networks[1]))


\* The two parts of an address in CIDR notation.
AddrPart(t) == Split(t, "/")[1]

MaskPart(t) == Split(t, "/")[2]

\* The mask by precedence, for the override text m on the subnet n of cfg.
SelectedMask(m, n) ==
    IF m # <<>> /\ ParseIP(m) # {} THEN CHOOSE x \in ParseIP(m) : TRUE
    ELSE IF n.BindMask # <<>> /\ ParseIP(n.BindMask) # {}
    THEN CHOOSE x \in ParseIP(n.BindMask) : TRUE
    ELSE DeclaredMask(n)

(* C15: every call of GetNextIp advances the counter by one whatever the   *)
(* override; the mask of the address it returns is the override when that  *)
(* is non-empty and valid, else the subnet's BindMask when that is         *)
(* non-empty and valid, else the mask declared in IpRange; and the address *)
(* is the one the same call returns with no override.                      *)
C15_MaskByPrecedence ==
    last.op = "GetNextIp" =>
        /\ nets[AllocNet].nextIp = ncalls
        /\ last.ok =>
              /\ MaskPart(last.args[2]) =
                     MaskPart(IPNetString(<<0, 0, 0, 0>>,
                                          SelectedMask(last.args[1], cfg.Networks[1])))
              /\ AddrPart(last.args[2]) =
                     AddrPart(GetNextIp([nets[AllocNet] EXCEPT !.nextIp = ncalls - 1],
                                        <<>>).out)

\* The second address of a subnet with a valid BindMask of its own has been
\* returned under an override that is not valid: the subnet's mask is used.
C15_Witness ==
    /\ Allocated(2) /\ last.ok
    /\ cfg.Networks[1].BindMask = Mask16
    /\ last.args[1] = BadMask
    /\ MaskPart(last.args[2]) = <<"1", "6">>
    /\ cfg.Networks[1].IpRange = RangeCarry

----------------------------------------------------------------------------
(* C16: the addresses of one Create pass.                                  *)

\* The peers of cfg linked to its first subnet, by index.
LinkedPeers == {j \in 1..Len(cfg.Peers) : cfg.Networks[1].Name \in DOMAIN cfg.Peers[j].Links}

\* The bytes of the address Create has assigned to the j-th peer.
AddressOf(j) ==
    CHOOSE b \in UNION {ParseIP(AddrPart(t)) : t \in AssignedTo(cfg.Peers[j].Name)} : TRUE

\* Addresses compared as 32-bit values.
AddrLess(a, b) ==
    \E i \in 1..4 : a[i] < b[i] /\ \A k \in 1..(i - 1) : a[k] = b[k]

(* C16: after a Create pass on a config with one subnet, the addresses     *)
(* given to the peers linked to the subnet increase strictly in config     *)
(* order (so no two peers have the same address), and the i-th linked peer *)
(* has base + i (wherever base + i is a 32-bit address).                   *)
C16_AddressesIncrease ==
    (CreateReturned /\ cerr = NoErr /\ Len(cfg.Networks) = 1) =>
        /\ \A j \in LinkedPeers : Cardinality(AssignedTo(cfg.Peers[j].Name)) = 1
        /\ \A j1, j2 \in LinkedPeers : j1 < j2 => AddrLess(AddressOf(j1), AddressOf(j2))
        /\ \A j \in LinkedPeers :
               LET i == Cardinality({x \in LinkedPeers : x <= j})
                   want == AddrPlus((CHOOSE x \in ParseCIDR(cfg.Networks[1].IpRange) : TRUE).IP, i)
               IN  want # <<>> => AddressOf(j) = want

----------------------------------------------------------------------------
(* C17, C18: freshName.                                                    *)

\* freshName has returned loc.name for the prefix and the taken names below.
Named == pc = "named"

FreshPrefix == r.prefixes["Bridge"]

Taken == InterfaceNames(host)

\* The suffixes of the taken names that start with the prefix.
Suffixes == {SubSeq(name, Len(FreshPrefix) + 1, Len(name)) :
                 name \in {x \in Taken : HasPrefix(x, FreshPrefix)}}

\* The numeric ones, as decimal numbers of any size.
NumericSuffixes == {TrimZeros(x) : x \in {y \in Suffixes : AllDigits(y)}}

(* C17 as stated: the name is the prefix followed by 1 + the largest       *)
(* numeric suffix among the taken names that start with the prefix, or by  *)
(* 0 if no taken name starts with it; names with a non-numeric suffix do   *)
(* not affect the number.                                                  *)
C17_OnePlusMaxNumericSuffix ==
    Named =>
        loc.name = FreshPrefix \o (IF NumericSuffixes = {} THEN <<"0">>
                                   ELSE DecInc(Uint64Max(NumericSuffixes)))

(* C17 as amended: the name is the prefix followed by 0 if no taken name   *)
(* starts with the prefix; otherwise by 1 + M in unsigned 64-bit           *)
(* arithmetic (0 when M is 2^64 - 1), where M is the largest suffix that   *)
(* is a decimal number of at most 2^64 - 1 among the taken names that      *)
(* start with the prefix, and M is 0 when there is no such suffix.         *)
C17_OnePlusMaxAmongSharing ==
    Named =>
        LET nums == {x \in NumericSuffixes : ~DecLess(MaxUint64, x)}
            M == IF nums = {} THEN <<"0">> ELSE Uint64Max(nums)
        IN  loc.name = FreshPrefix \o (IF Suffixes = {} THEN <<"0">>
                                       ELSE IF M = MaxUint64 THEN <<"0">>
                                       ELSE DecInc(M))

\* A name has been allocated where "br1", "br3" and "brx" are taken.
C17_Witness ==
    /\ Named /\ FreshPrefix = Br
    /\ Taken = {Br \o <<"1">>, Br \o <<"3">>, Br \o <<"x">>}
    /\ loc.name = Br \o <<"4">>

(* C18: the name freshName returns is not one of the taken names.          *)
C18_FreshNameNotTaken == Named => loc.name \notin Taken

----------------------------------------------------------------------------
(* The parsers.                                                            *)

\* The parser op has returned.
ParsedBy(op) == pc = "parsed" /\ last.op = op

\* The string it was given and the value it returned.
ParseInput == last.args[1]

ParseValue == last.args[2]

\* s without its last n characters.
DropLast(s, n) == SubSeq(s, 1, Len(s) - n)

\* The digits of d * 1024^e, however large the product.
ExactKibi(d, e) == IF d = 0 THEN <<>> ELSE [i \in 1..e |-> 0] \o KibiDigits(d)

\* The number with the digits x is below 2^64.
InUint(x) == Len(x) < UintLen \/ (Len(x) = UintLen /\ x[UintLen] < 2 ^ (UintBits % 10))

\* The parser returned d * 1024^e without an error, if a uint can hold it.
RateIs(d, e) == InUint(ExactKibi(d, e)) => last.ok /\ ParseValue = ExactKibi(d, e)

IsDecimalInteger(s) == AllDigits(s) \/ (s # <<>> /\ s[1] \in {"+", "-"} /\ AllDigits(Tail(s)))

\* The integer a decimal integer denotes.
IntegerOf(s) ==
    IF AllDigits(s) THEN ParseUint(s)
    ELSE IF s[1] = "-" THEN 0 - ParseUint(Tail(s)) ELSE ParseUint(Tail(s))

\* C20: ParsePercentage returns 0 and no error for the empty string;
\* returns v, unclamped, for a decimal integer v followed by "%"; and returns
\* an error for a non-empty string that does not end in "%" or whose part
\* before "%" is no decimal integer.
C20_PercentageParsed ==
    ParsedBy("ParsePercentage") =>
        LET s == ParseInput
            isPct == HasSuffix(s, <<"%">>)
            body == DropLast(s, 1)
        IN  /\ s = <<>> => last.ok /\ ParseValue = <<>>
            /\ s # <<>> /\ ~isPct => ~last.ok
            /\ isPct /\ ~IsDecimalInteger(body) => ~last.ok
            /\ isPct /\ IsDecimalInteger(body) =>
                   /\ last.ok
                   /\ IntegerOf(body) >= 0
                   /\ ParseValue = KibiDigits(IntegerOf(body))

----------------------------------------------------------------------------
(* One LinkOpts.                                                           *)

\* What the n-th Parse call returned: <<n, the LinkOpts, the error, the
\* descriptor left in lset>>.
ParseCalls == {e \in created : Len(e) = 4}

\* C21: two Parse calls on a LinkOpts whose four strings are the same return
\* the same error and leave the same descriptor, whatever Parse and Apply
\* calls and whatever other strings came before.
C21_ParseDependsOnStringsOnly ==
    \A e1, e2 \in ParseCalls : e1[2] = e2[2] => e1[3] = e2[3] /\ e1[4] = e2[4]

\* A LinkOpts with a field set was parsed, given other strings and parsed,
\* given the first strings again and parsed, and Apply has reached the host.
C21_Witness ==
    \E e1, e2, e3 \in ParseCalls :
        /\ e1[1] = 1 /\ e2[1] = 2 /\ e3[1] = 3
        /\ e1[2] = e3[2] /\ e2[2] # e1[2]
        /\ ~Unset(e3[2]) /\ e3[3] = NoErr
        /\ ncalls > 0

\* Some Parse call on the LinkOpts has returned no error.
ParsedSuccessfully == \E e \in ParseCalls : e[3] = NoErr

\* C22: Apply on a LinkOpts whose four strings are empty does nothing and
\* returns no error; on any other LinkOpts it returns the not-parsed error
\* unless a successful Parse has computed the descriptor, so it reaches
\* ctrlnet.SetLink only with a string set and after a successful Parse.
C22_ApplyNeedsSuccessfulParse ==
    [][/\ (ncalls' = ncalls + 1 /\ last'.op = "SetLink") =>
              ~Unset(LinkOf(cfg, LinkKey)) /\ ParsedSuccessfully
       /\ (cerr'.kind = "internal" /\ cerr.kind # "internal") =>
              ~Unset(LinkOf(cfg, LinkKey)) /\ ~ParsedSuccessfully]_vars

\* C22, within Create: Create never returns the not-parsed error.
C22_NeverSurfacesInCreate == cerr.kind # "internal"

\* C25: when ParsePercentage accepts the packet-loss string of a LinkOpts
\* with the value v, the descriptor a successful Parse leaves holds the
\* packet loss v, also for v outside [0,100].
C25_PacketLossKept ==
    \A e \in ParseCalls :
        LET accepted == ParsePercentage(e[2].PacketLoss)
        IN  (e[3] = NoErr /\ accepted.err = NoErr) =>
                KibiDigits(e[4].PacketLoss) = accepted.val

----------------------------------------------------------------------------
(* The order of the calls of Create.                                       *)

Lo == <<"l", "o">>

\* The resources a call names as existing.
Refs(c) ==
    CASE c.op = "add-port" -> {<<"bridge", c.args[1]>>, <<"iface", c.args[2]>>}
      [] c.op \in {"set-type", "set-peer", "set-dev-up", "SetLink"} ->
             {<<"iface", c.args[1]>>}
      [] c.op = "link-set-netns" -> {<<"iface", c.args[1]>>, <<"namespace", c.args[2]>>}
      [] c.op = "netns-exec-up" ->
             {<<"namespace", c.args[1]>>}
                 \cup (IF c.args[2] = Lo THEN {} ELSE {<<"iface", c.args[2]>>})
      [] c.op = "netns-exec-addr" -> {<<"namespace", c.args[1]>>, <<"iface", c.args[2]>>}
      [] OTHER -> {}

\* The resources of one kind created so far.
CreatedOf(kind) == {c \in created : c[1] = kind}

NetLinks == {k \in LinkKeys(cfg) : k[1] = "net"}

----------------------------------------------------------------------------
(* Passes at once.                                                         *)

\* Pass i is about to issue the create call for the name it obtained.
AboutToCreate(i) == i \in DOMAIN pc /\ pc[i] = "ns_create"

\* C24, two passes: both passes have scanned before either has created, and
\* hold the same name.
C24_BothHoldSameName ==
    /\ DOMAIN pc = {1, 2}
    /\ AboutToCreate(1) /\ AboutToCreate(2)
    /\ loc[1].name = loc[2].name

\* C24, one pass: when the only pass at work issues the create call for the
\* name it obtained from the allocator, the inventory it scanned does not
\* hold that name.
C24_SinglePassNameAbsent ==
    (DOMAIN pc = {1} /\ AboutToCreate(1)) => loc[1].name \notin NamespaceNames(host)

----------------------------------------------------------------------------
(* Endpoint names.                                                         *)

\* C26: under every prefix configuration, the two names allocated for one
\* peer-to-subnet link differ when the pair is created, and the two names
\* allocated for one subnet-to-subnet link differ when the second port is
\* created.
C26_EndpointNamesDiffer ==
    /\ pc = "l_pair" => loc.lnA # loc.lnB
    /\ pc = "pb_ba_create" => loc.ab # loc.ba

\* C27: when Create issues the call that moves a peer-side endpoint into the
\* peer's namespace, the namespace holds no interface of that name.
C27_MovedNamesDiffer ==
    pc = "l_assign" => ~InNs(host, loc.lnA, loc.ns)

====
